---- MODULE Spec2Model ----
(***************************************************************************)
(* chemXtract: the table pipeline of src/src/main.py.  One document is     *)
(* threaded through the sub-graphs extract_tables (table detection, merge, *)
(* relevance filter) and extract_table_data (the per-table extract /       *)
(* verify / retry loop) and reaches table_norming; the loop of             *)
(* main_local_files starts the graph runs (Spec, FairSpec).  The save      *)
(* handlers of the per-document artifact file (SaveSpec) and the nodes of  *)
(* table_norming after its init node (NormSpec) are specified on their     *)
(* own inputs.  External collaborators (the document-analysis service and  *)
(* the LLM) are nondeterministic inputs of the handlers.                   *)
(*                                                                         *)
(* Python lists are sequences (index i of Python is index i+1 here),       *)
(* dicts are records, str values are strings or sequences of string        *)
(* tokens when they are built by concatenation.                            *)
(***************************************************************************)
EXTENDS Integers, Sequences, FiniteSets, TLC

\* ------------------------------------------------------------------ bounds
\* Number of files in input_data.
MaxDocs == 2

\* Largest number of pages of a document.
MaxPages == 3
\* Largest number of table fragments the analysis service detects.
MaxFrags == 3

\* --------------------------------------------------------- program constants
\* _verify_table_data: limit of re-extraction trials.
max_n_retries == 3
\* _verify_table_data: initial value of the counter (also model.py default).
init_val_for_retry_counter == 1
\* ExtractTableDataState.curr_table_idx: int = None (no index yet).
NoIdx == -1

\* Python None for str|None and dict|None fields.
None == "None"
NoneData == [py |-> "None"]

\* ------------------------------------------------------------------ helpers
Range(s) == {s[i] : i \in 1..Len(s)}

\* "\n".join(parts): the parts separated by a newline token.
RECURSIVE Join(_)
Join(parts) ==
    IF parts = <<>> THEN <<>>
    ELSE IF Len(parts) = 1 THEN parts[1]
    ELSE parts[1] \o <<"\n">> \o Join(Tail(parts))

\* list.remove(x): drops the first occurrence of x (ValueError when absent;
\* callers test membership first).
RECURSIVE RemoveFirst(_, _)
RemoveFirst(s, x) ==
    IF s = <<>> THEN <<>>
    ELSE IF s[1] = x THEN Tail(s)
    ELSE <<s[1]>> \o RemoveFirst(Tail(s), x)

\* sorted(set): the elements of a finite set of integers, ascending.
RECURSIVE SortedSeq(_)
SortedSeq(S) ==
    IF S = {} THEN <<>>
    ELSE LET m == CHOOSE x \in S : \A y \in S : x <= y
         IN <<m>> \o SortedSeq(S \ {m})

\* Non-decreasing sequences of length n over lo..hi (tables in reading order).
RECURSIVE NonDecreasing(_, _, _)
NonDecreasing(n, lo, hi) ==
    IF n = 0 THEN {<<>>}
    ELSE UNION {{<<p>> \o rest : rest \in NonDecreasing(n - 1, p, hi)} : p \in lo..hi}

\* ---------------------------------------------------------------- the state
VARIABLES
    stage,            \* node of the main graph: extract_tables, extract_table_data, ...
    node,             \* node of the running sub-graph
    doc_path,         \* BaseState.doc_path
    error,            \* BaseState.error
    pdf_page_images,  \* BaseState.pdf_page_images
    pages,            \* BaseState.pages
    tables,           \* BaseState.tables
    feedback,         \* ExtractTableDataState.feedback
    retry_counter,    \* ExtractTableDataState.retry_counter
    curr_table_idx,   \* ExtractTableDataState.curr_table_idx (0-based)
    SKIP_STEP_2,      \* os.getenv("SKIP_STEP_2")
    step2_pkl,        \* the file data/step2.pkl
    \* observations of what the handlers did (not read by the handlers)
    fragments,        \* the tables as detected, before the merge
    fragPages,        \* the pages as built by the analysis, before the merge
    spillCalls,       \* check_if_table_spills calls: <<[prev, cand, page1, page2, answer]>>
    mergedFrom,       \* tables_to_merge (fragment numbers) of each add_merged_table call
    relevance,        \* check_if_table_relevant answers, one per call, in call order
    lastCall,         \* the last LLM call of the extraction loop
    attempts,         \* extraction calls for the table in progress
    verifications,    \* verification LLM calls for the table in progress
    inProgress,       \* tables extracted at least once whose feedback was not yet cleared
    loopEnd,          \* how the extract_table_data sub-graph ended, "no" while it has not
    docs_left,        \* files of input_data the loop of main_local_files has not reached
    artifact,         \* the file output_data/<file_name>.json of the document
    lastWrite,        \* observation: the last run of a save handler
    norming,          \* the TableNormingState of the table_norming sub-graph
    usual_components, \* the oxide column of background_info/übliche Komponenten.xlsx
    analysis,         \* one table of the AnalyzeResult, get_table's dict and its serialization
    main_data,        \* the ExtractMainDataState of the main-data workflow and its calls
    file_names        \* the document reference and the file name each stage derives from it

tableVars == <<stage, node, doc_path, error, pdf_page_images, pages, tables>>
loopVars == <<feedback, retry_counter, curr_table_idx>>
obsMerge == <<fragments, fragPages, spillCalls, mergedFrom, relevance>>
envVars == <<SKIP_STEP_2, step2_pkl>>
obsLoop == <<lastCall, attempts, verifications, inProgress, loopEnd>>
normVars == <<norming, usual_components>>
auxVars == <<analysis, main_data, file_names>>
sideVars == <<docs_left, normVars, auxVars>>
fileVars == <<artifact, lastWrite>>
vars == <<stage, node, doc_path, error, pdf_page_images, pages, tables,
          feedback, retry_counter, curr_table_idx, SKIP_STEP_2, step2_pkl,
          fragments, fragPages, spillCalls, mergedFrom, relevance,
          lastCall, attempts, verifications, inProgress, loopEnd,
          docs_left, artifact, lastWrite, norming, usual_components,
          analysis, main_data, file_names>>

DocPaths == {"", "input_data/doc.pdf"}

\* The artifact file: absent, not parseable as JSON, a JSON value that is
\* not an object, or a JSON object (a dict: a function from its keys to
\* values).  json.dump followed by json.load gives back an equal dict for
\* the str keys and str values written here.
Absent == [kind |-> "absent"]
Malformed == [kind |-> "malformed"]
JsonArray == [kind |-> "array"]
JsonObject(d) == [kind |-> "object", value |-> d]

NoWrite == [op |-> "none"]

\* A Python dict held in a Dict[str, Any] field: the empty one, and one with
\* content d (a record of its keys).
EmptyDict == [py |-> "dict", empty |-> TRUE]
Dict(d) == [py |-> "dict", empty |-> FALSE, items |-> d]

\* The defaults of the class TableNormingState of table_norming_agent.py
\* (lines 41-47): the fields are plain dicts, there is no doc_path.
TableNormingState ==
    [table_data |-> NoneData,
     normalized_table |-> NoneData,
     abnormal_material |-> FALSE,
     abnormal_details |-> <<>>,
     error |-> None]

\* The entry node of the main graph: add_edge(START, "extract_tables").
START == "extract_tables"

\* Variant of Edge: extract_tables is wired to table_norming and
\* table_norming to extract_table_data.
EdgeNormingFirst(n) ==
    CASE n = "extract_tables" -> "table_norming"
      [] n = "table_norming" -> "extract_table_data"
      [] n = "extract_table_data" -> "idle"

\* The edges of the main graph (main.py lines 41-43): the node that runs when
\* sub-graph n has reached its END; after table_norming the invoke returns.
Edge(n) ==
    CASE n = "extract_tables" -> "extract_table_data"
      [] n = "extract_table_data" -> "table_norming"
      [] n = "table_norming" -> "idle"

NoCall == [op |-> "none"]

\* The rendered image of page p (1-based), an opaque handle.
PageImage(p) == <<"img", p>>

\* get_page_content: the text of page p, opaque.
PageContent(p) == <<"text", p>>

\* get_table_content(get_table(...)): the serialized cell grid of detected
\* table k (0-based), an opaque string.
TableContent(k) == <<"T" \o ToString(k)>>

\* TableDataResult(table_data=[], is_weight_percent=False).model_dump()
EmptyResult == [table_data |-> <<>>, is_weight_percent |-> FALSE]

\* data/step2.pkl: absent, or the ExtractTableDataState an earlier run dumped
\* when it found all its tables extracted (here: a one-page document with
\* one table, accepted at the first verification).
NoFile == [exists |-> FALSE]

EarlierCheckpoint ==
    [exists |-> TRUE,
     state |-> [doc_path |-> "input_data/earlier.pdf",
                error |-> "",
                pdf_page_images |-> <<PageImage(1)>>,
                pages |-> <<[number |-> 1, content |-> PageContent(1),
                             tables |-> <<0>>, base64 |-> PageImage(1)]>>,
                tables |-> <<[number |-> 0, content |-> TableContent(0),
                              pages |-> <<0>>, extracted_data |-> EmptyResult]>>,
                feedback |-> None,
                retry_counter |-> init_val_for_retry_counter,
                curr_table_idx |-> 0]]

\* os.listdir(input_folder) of main_local_files: the files still to process;
\* no graph is running yet.
Init ==
    /\ stage = "idle"
    /\ node = "init"
    /\ doc_path = ""
    /\ error = ""
    /\ pdf_page_images = <<>>
    /\ pages = <<>>
    /\ tables = <<>>
    /\ feedback = None
    /\ retry_counter = init_val_for_retry_counter
    /\ curr_table_idx = NoIdx
    /\ SKIP_STEP_2 \in {"True", "False", None}
    /\ step2_pkl \in {NoFile, EarlierCheckpoint}
    /\ fragments = <<>>
    /\ fragPages = <<>>
    /\ spillCalls = <<>>
    /\ mergedFrom = <<>>
    /\ relevance = <<>>
    /\ lastCall = NoCall
    /\ attempts = 0
    /\ verifications = 0
    /\ inProgress = {}
    /\ loopEnd = "no"
    /\ docs_left = MaxDocs
    /\ artifact = Absent
    /\ lastWrite = NoWrite
    /\ analysis = NoneData
    /\ main_data = NoneData
    /\ file_names = NoneData
    /\ norming = TableNormingState
    /\ usual_components = {}

\* The body of the loop of main_local_files (lines 56-61) up to the call:
\* state = BaseState(doc_path=filepath); graph.invoke(state).  It runs when
\* no graph is running, that is at the start and after an invoke that has
\* returned.  The state is a fresh BaseState, the sub-graph fields start from
\* the defaults of ExtractTableDataState; doc_path is the path handed over
\* (the empty string is the default of BaseState).
InvokeGraph ==
    /\ stage = "idle"
    /\ docs_left > 0
    /\ docs_left' = docs_left - 1
    /\ stage' = START
    /\ node' = "init"
    /\ doc_path' \in DocPaths
    /\ error' = ""
    /\ pdf_page_images' = <<>>
    /\ pages' = <<>>
    /\ tables' = <<>>
    /\ feedback' = None
    /\ retry_counter' = init_val_for_retry_counter
    /\ curr_table_idx' = NoIdx
    /\ fragments' = <<>>
    /\ fragPages' = <<>>
    /\ spillCalls' = <<>>
    /\ mergedFrom' = <<>>
    /\ relevance' = <<>>
    /\ lastCall' = NoCall
    /\ attempts' = 0
    /\ verifications' = 0
    /\ inProgress' = {}
    /\ loopEnd' = "no"
    /\ UNCHANGED <<envVars, fileVars, normVars, auxVars>>

\* ------------------------------------------------- sub-graph extract_tables
\* extract_table_agent._init
ExtractTablesInit ==
    /\ stage = "extract_tables" /\ node = "init"
    /\ IF doc_path = ""
       THEN /\ error' = "Document path is missing in the state."
            /\ stage' = Edge("extract_tables")
            /\ node' = "init"
       ELSE /\ error' = error
            /\ stage' = stage
            /\ node' = "pdf_to_base64_images"
    /\ UNCHANGED <<doc_path, pdf_page_images, pages, tables>>
    /\ UNCHANGED <<loopVars, envVars, obsMerge, obsLoop>>
    /\ UNCHANGED <<sideVars, fileVars>>

\* extract_table_agent._pdf_to_base64_images: one image per page of the PDF.
PdfToBase64Images ==
    /\ stage = "extract_tables" /\ node = "pdf_to_base64_images"
    /\ \E np \in 1..MaxPages :
          pdf_page_images' = [p \in 1..np |-> PageImage(p)]
    /\ node' = "extract_tables_and_page_contents"
    /\ UNCHANGED <<stage, doc_path, error, pages, tables>>
    /\ UNCHANGED <<loopVars, envVars, obsMerge, obsLoop>>
    /\ UNCHANGED <<sideVars, fileVars>>

\* get_page_tables: indices of the tables whose first bounding region is on
\* page p (1-based), in table order.  tp[k] is get_table_page of table k-1.
RECURSIVE get_page_tables(_, _, _)
get_page_tables(tp, p, k) ==
    IF k > Len(tp) THEN <<>>
    ELSE (IF tp[k] = p THEN <<k - 1>> ELSE <<>>) \o get_page_tables(tp, p, k + 1)

\* extract_table_agent._extract_tables_and_page_contents: the analysis result
\* is a page count (that of the rendered PDF) and, for each detected table in
\* reading order, the 1-based page of its first bounding region.
ExtractTablesAndPageContents ==
    /\ stage = "extract_tables" /\ node = "extract_tables_and_page_contents"
    /\ \/ \E n \in 0..MaxFrags :
            \E tp \in NonDecreasing(n, 1, Len(pdf_page_images)) :
               /\ pages' = [p \in 1..Len(pdf_page_images) |->
                              [number |-> p,
                               content |-> PageContent(p),
                               tables |-> get_page_tables(tp, p, 1),
                               base64 |-> pdf_page_images[p]]]
               /\ tables' = [k \in 1..n |->
                              [number |-> k - 1,
                               content |-> TableContent(k - 1),
                               pages |-> <<tp[k] - 1>>]]
               /\ stage' = stage
               /\ node' = "concatenate_tables"
       \/ \* begin_analyze_document or poller.result() raises (lines 162-166);
          \* nothing catches it
          /\ stage' = "raised"
          /\ UNCHANGED <<node, pages, tables>>
    /\ fragments' = tables'
    /\ fragPages' = pages'
    /\ UNCHANGED <<doc_path, error, pdf_page_images>>
    /\ UNCHANGED <<spillCalls, mergedFrom, relevance>>
    /\ UNCHANGED <<loopVars, envVars, obsLoop>>
    /\ UNCHANGED <<sideVars, fileVars>>

\* Variant of ReplaceRefs: the merged id is appended but the fragment id is
\* not removed.
RECURSIVE ReplaceRefsAppendOnly(_, _, _, _)
ReplaceRefsAppendOnly(pgs, tables_to_merge, table_index, k) ==
    IF k > Len(tables_to_merge) THEN [pages |-> pgs, raised |-> FALSE]
    ELSE LET page_number == tables_to_merge[k].pages[1]
         IN ReplaceRefsAppendOnly(
               [pgs EXCEPT ![page_number + 1].tables = Append(@, table_index)],
               tables_to_merge, table_index, k + 1)

\* Variant of ReplaceRefs: only the page of the first fragment of the group
\* is updated (the loop of lines 196-200 runs for tables_to_merge[0] only).
ReplaceRefsFirstOnly(pgs, tables_to_merge, table_index, k) ==
    LET table_number == tables_to_merge[1].number
        page_number == tables_to_merge[1].pages[1]
        refs == pgs[page_number + 1].tables
    IN IF table_number \notin Range(refs)
       THEN [pages |-> pgs, raised |-> TRUE]
       ELSE [pages |-> [pgs EXCEPT ![page_number + 1].tables =
                            Append(RemoveFirst(refs, table_number), table_index)],
             raised |-> FALSE]

\* add_merged_table(tables, tables_to_merge, pages); m carries the two lists
\* the function mutates, the tables_to_merge of every call so far, and whether
\* list.remove raised ValueError.
RECURSIVE ReplaceRefs(_, _, _, _)
ReplaceRefs(pgs, tables_to_merge, table_index, k) ==
    \* the for loop of lines 196-200, from its k-th iteration on
    IF k > Len(tables_to_merge) THEN [pages |-> pgs, raised |-> FALSE]
    ELSE LET table_number == tables_to_merge[k].number
             page_number == tables_to_merge[k].pages[1]
             refs == pgs[page_number + 1].tables
         IN IF table_number \notin Range(refs)
            THEN [pages |-> pgs, raised |-> TRUE]
            ELSE ReplaceRefs(
                   [pgs EXCEPT ![page_number + 1].tables =
                        Append(RemoveFirst(refs, table_number), table_index)],
                   tables_to_merge, table_index, k + 1)

\* Variant of add_merged_table: the merged table keeps the number of its
\* first fragment instead of len(tables).
add_merged_table_KeepNumber(m, tables_to_merge) ==
    LET table_index == tables_to_merge[1].number
        table == [number |-> table_index,
                  content |-> Join([k \in 1..Len(tables_to_merge) |->
                                       tables_to_merge[k].content]),
                  pages |-> [k \in 1..Len(tables_to_merge) |->
                                       tables_to_merge[k].pages[1]]]
        r == ReplaceRefs(m.pages, tables_to_merge, table_index, 1)
    IN [m EXCEPT !.tables = Append(m.tables, table),
                 !.pages = r.pages,
                 !.groups = Append(m.groups,
                                   [k \in 1..Len(tables_to_merge) |->
                                       tables_to_merge[k].number]),
                 !.raised = m.raised \/ r.raised]

add_merged_table(m, tables_to_merge) ==
    LET table_index == Len(m.tables)
        table == [number |-> table_index,
                  content |-> Join([k \in 1..Len(tables_to_merge) |->
                                       tables_to_merge[k].content]),
                  pages |-> [k \in 1..Len(tables_to_merge) |->
                                       tables_to_merge[k].pages[1]]]
        r == ReplaceRefs(m.pages, tables_to_merge, table_index, 1)
    IN [m EXCEPT !.tables = Append(m.tables, table),
                 !.pages = r.pages,
                 !.groups = Append(m.groups,
                                   [k \in 1..Len(tables_to_merge) |->
                                       tables_to_merge[k].number]),
                 !.raised = m.raised \/ r.raised]

\* Variant of Adjacent: any later page counts as the next page.
AdjacentOrLater(last, cand) == last.pages[1] < cand.pages[1]

\* The adjacency test of line 215: the candidate's page is exactly one more
\* than the page of the last fragment appended to the group.
Adjacent(last, cand) == last.pages[1] + 1 = cand.pages[1]

\* _concatenate_tables, lines 210-232.  st are state.tables, imgs are
\* state.pdf_page_images, spills[i] is what check_if_table_spills answers if
\* it is called with candidate table index i (0-based), table_index is the
\* loop variable.  OuterLoop is the head of the outer while, InnerLoop the
\* head of the inner while.
RECURSIVE OuterLoop(_, _, _, _, _), InnerLoop(_, _, _, _, _, _)
OuterLoop(st, imgs, spills, table_index, m) ==
    IF table_index < Len(st) /\ ~m.raised
    THEN InnerLoop(st, imgs, spills, table_index + 1, <<st[table_index + 1]>>, m)
    ELSE m

\* Variant of InnerLoop: the group still open when the inner loop is
\* exhausted is not finalized (lines 230-231 missing).
InnerLoopDropsLast(st, imgs, spills, table_index, tables_to_merge, m) ==
    IF table_index < Len(st)
    THEN LET last == tables_to_merge[Len(tables_to_merge)]
             cand == st[table_index + 1]
         IN IF Adjacent(last, cand)
            THEN LET last_page == last.pages[1]
                     call == [prev |-> last.number, cand |-> cand.number,
                              page1 |-> imgs[last_page + 1],
                              page2 |-> imgs[last_page + 2],
                              answer |-> spills[table_index]]
                     m2 == [m EXCEPT !.calls = Append(m.calls, call)]
                 IN IF spills[table_index]
                    THEN InnerLoop(st, imgs, spills, table_index + 1,
                                   Append(tables_to_merge, cand), m2)
                    ELSE OuterLoop(st, imgs, spills, table_index,
                                   add_merged_table(m2, tables_to_merge))
            ELSE OuterLoop(st, imgs, spills, table_index,
                           add_merged_table(m, tables_to_merge))
    ELSE OuterLoop(st, imgs, spills, table_index, m)

\* Variant of InnerLoop: the candidate is compared with the first fragment of
\* the group (tables_to_merge[0]) instead of the last one appended.
InnerLoopFromFirst(st, imgs, spills, table_index, tables_to_merge, m) ==
    IF table_index < Len(st)
    THEN LET last == tables_to_merge[1]
             cand == st[table_index + 1]
         IN IF Adjacent(last, cand)
            THEN LET last_page == last.pages[1]
                     call == [prev |-> last.number, cand |-> cand.number,
                              page1 |-> imgs[last_page + 1],
                              page2 |-> imgs[last_page + 2],
                              answer |-> spills[table_index]]
                     m2 == [m EXCEPT !.calls = Append(m.calls, call)]
                 IN IF spills[table_index]
                    THEN InnerLoop(st, imgs, spills, table_index + 1,
                                   Append(tables_to_merge, cand), m2)
                    ELSE OuterLoop(st, imgs, spills, table_index,
                                   add_merged_table(m2, tables_to_merge))
            ELSE OuterLoop(st, imgs, spills, table_index,
                           add_merged_table(m, tables_to_merge))
    ELSE OuterLoop(st, imgs, spills, table_index,
                   add_merged_table(m, tables_to_merge))

InnerLoop(st, imgs, spills, table_index, tables_to_merge, m) ==
    IF table_index < Len(st)
    THEN LET last == tables_to_merge[Len(tables_to_merge)]
             cand == st[table_index + 1]
         IN IF Adjacent(last, cand)
            THEN LET last_page == last.pages[1]
                     call == [prev |-> last.number, cand |-> cand.number,
                              page1 |-> imgs[last_page + 1],
                              page2 |-> imgs[last_page + 2],
                              answer |-> spills[table_index]]
                     m2 == [m EXCEPT !.calls = Append(m.calls, call)]
                 IN IF spills[table_index]
                    THEN InnerLoop(st, imgs, spills, table_index + 1,
                                   Append(tables_to_merge, cand), m2)
                    ELSE OuterLoop(st, imgs, spills, table_index,
                                   add_merged_table(m2, tables_to_merge))
            ELSE OuterLoop(st, imgs, spills, table_index,
                           add_merged_table(m, tables_to_merge))
    ELSE \* inner loop exhausted: table_index == len(state.tables), line 231
         OuterLoop(st, imgs, spills, table_index,
                   add_merged_table(m, tables_to_merge))

\* extract_table_agent._concatenate_tables
ConcatenateTables ==
    /\ stage = "extract_tables" /\ node = "concatenate_tables"
    /\ \E spills \in [0..(Len(tables) - 1) -> BOOLEAN] :
         LET m == OuterLoop(tables, pdf_page_images, spills, 0,
                            [tables |-> <<>>, pages |-> pages, groups |-> <<>>,
                             calls |-> <<>>, raised |-> FALSE])
         IN /\ spillCalls' = m.calls
            /\ mergedFrom' = m.groups
            /\ IF m.raised
               THEN /\ stage' = "raised" /\ node' = "concatenate_tables"
                    /\ UNCHANGED <<pages, tables>>
               ELSE /\ stage' = stage /\ node' = "filter_irrelevant_tables"
                    /\ pages' = m.pages
                    /\ tables' = m.tables
    /\ UNCHANGED <<doc_path, error, pdf_page_images>>
    /\ UNCHANGED <<fragments, fragPages, relevance>>
    /\ UNCHANGED <<loopVars, envVars, obsLoop>>
    /\ UNCHANGED <<sideVars, fileVars>>

\* Variant of relevant_tables: the test of line 272 is inverted.
RECURSIVE relevant_tables_inverted(_, _, _)
relevant_tables_inverted(tbls, rel, k) ==
    IF k > Len(tbls) THEN <<>>
    ELSE (IF rel[k] THEN <<>> ELSE <<tbls[k]>>)
         \o relevant_tables_inverted(tbls, rel, k + 1)

\* Variant of relevant_tables: line 273 inserts at the front (insert(0, table)
\* instead of append).
RECURSIVE relevant_tables_reversed(_, _, _)
relevant_tables_reversed(tbls, rel, k) ==
    IF k > Len(tbls) THEN <<>>
    ELSE relevant_tables_reversed(tbls, rel, k + 1)
         \o (IF rel[k] THEN <<tbls[k]>> ELSE <<>>)

\* The tables check_if_table_relevant accepts, in order; rel[k] is its answer
\* for the k-th table of tbls.
RECURSIVE relevant_tables(_, _, _)
relevant_tables(tbls, rel, k) ==
    IF k > Len(tbls) THEN <<>>
    ELSE (IF rel[k] THEN <<tbls[k]>> ELSE <<>>) \o relevant_tables(tbls, rel, k + 1)

\* Variant of relevant_pages_numbers: line 274 adds only table["pages"][0].
relevant_pages_numbers_first(tbls) == {tbls[k].pages[1] : k \in 1..Len(tbls)}

\* relevant_pages_numbers: the set updated with table["pages"] of each
\* relevant table.
relevant_pages_numbers(tbls) == UNION {Range(tbls[k].pages) : k \in 1..Len(tbls)}

\* extract_table_agent._filter_irrelevant_tables; rel are the answers of
\* check_if_table_relevant, called once per table in order.
FilterIrrelevantTables ==
    /\ stage = "extract_tables" /\ node = "filter_irrelevant_tables"
    /\ \E rel \in [1..Len(tables) -> BOOLEAN] :
         LET kept == relevant_tables(tables, rel, 1)
             nums == SortedSeq(relevant_pages_numbers(kept))
         IN /\ tables' = kept
            /\ pages' = [i \in 1..Len(nums) |-> pages[nums[i] + 1]]
            /\ relevance' = rel
    /\ stage' = Edge("extract_tables")
    /\ node' = "init"
    /\ UNCHANGED <<doc_path, error, pdf_page_images>>
    /\ UNCHANGED <<fragments, fragPages, spillCalls, mergedFrom>>
    /\ UNCHANGED <<loopVars, envVars, obsLoop>>
    /\ UNCHANGED <<sideVars, fileVars>>

\* --------------------------------------------- sub-graph extract_table_data
\* What chain.invoke of _extract_table_data can do: return a parsed
\* TableDataResult dict, raise BadRequestError with code "content_filter", or
\* raise anything else.
LLMResults ==
    {[table_data |-> <<<<"SiO2", "60.1">>>>, is_weight_percent |-> TRUE],
     [table_data |-> <<<<"SiO2", "59.8">>>>, is_weight_percent |-> FALSE]}

ExtractOutcomes ==
    {[kind |-> "ok", resp |-> r] : r \in LLMResults}
    \cup {[kind |-> "content_filter", resp |-> NoneData],
          [kind |-> "error", resp |-> NoneData]}

\* What chain.invoke of _verify_table_data can do: return a
\* VerifyExtractionResult, or raise (nothing is caught there).
Feedbacks == {"", "value in row 1 is wrong"}

VerifyOutcomes ==
    {[kind |-> "ok", feedback |-> f, reextraction_necessary |-> b] :
        f \in Feedbacks, b \in BOOLEAN}
    \cup {[kind |-> k, feedback |-> "", reextraction_necessary |-> FALSE] :
        k \in {"content_filter", "error"}}

\* extract_table_data_agent._init
ExtractTableDataInit ==
    /\ stage = "extract_table_data" /\ node = "init"
    /\ IF SKIP_STEP_2 = "True"
       THEN IF step2_pkl.exists
            THEN \* state = pickle.load(f); Command(update=state, goto=END)
                 /\ doc_path' = step2_pkl.state.doc_path
                 /\ error' = step2_pkl.state.error
                 /\ pdf_page_images' = step2_pkl.state.pdf_page_images
                 /\ pages' = step2_pkl.state.pages
                 /\ tables' = step2_pkl.state.tables
                 /\ feedback' = step2_pkl.state.feedback
                 /\ retry_counter' = step2_pkl.state.retry_counter
                 /\ curr_table_idx' = step2_pkl.state.curr_table_idx
                 /\ stage' = Edge("extract_table_data")
                 /\ node' = "init"
                 /\ loopEnd' = "skipped"
            ELSE \* open(...) raises FileNotFoundError
                 /\ stage' = "raised" /\ node' = node
                 /\ loopEnd' = "raised"
                 /\ UNCHANGED <<doc_path, error, pdf_page_images, pages, tables, loopVars>>
       ELSE /\ node' = "extract_table_data"
            /\ UNCHANGED <<stage, doc_path, error, pdf_page_images, pages, tables>>
            /\ UNCHANGED <<loopVars, loopEnd>>
    /\ UNCHANGED <<lastCall, attempts, verifications, inProgress>>
    /\ UNCHANGED <<envVars, obsMerge>>
    /\ UNCHANGED <<sideVars, fileVars>>

\* lines 57-62: t["extracted_data"] is missing (then set to None) or None.
Unextracted(t) ==
    \/ "extracted_data" \notin DOMAIN t
    \/ t.extracted_data = NoneData

\* Variant of FirstUnextracted: the scan starts at the second table
\* (enumerate(state.tables[1:], 1)).
FirstUnextractedFromSecond(tbls) ==
    IF \E i \in 2..Len(tbls) : Unextracted(tbls[i])
    THEN (CHOOSE i \in 2..Len(tbls) :
             /\ Unextracted(tbls[i])
             /\ \A j \in 2..(i - 1) : ~Unextracted(tbls[j])) - 1
    ELSE NoIdx

\* Variant of FirstUnextracted: the scan runs over reversed(state.tables).
FirstUnextractedReversed(tbls) ==
    IF \E i \in 1..Len(tbls) : Unextracted(tbls[i])
    THEN (CHOOSE i \in 1..Len(tbls) :
             /\ Unextracted(tbls[i])
             /\ \A j \in (i + 1)..Len(tbls) : ~Unextracted(tbls[j])) - 1
    ELSE NoIdx

\* lines 56-67: the index of the first table still to extract, NoIdx if none.
FirstUnextracted(tbls) ==
    IF \E i \in 1..Len(tbls) : Unextracted(tbls[i])
    THEN (CHOOSE i \in 1..Len(tbls) :
             /\ Unextracted(tbls[i])
             /\ \A j \in 1..(i - 1) : ~Unextracted(tbls[j])) - 1
    ELSE NoIdx

\* Variant of SelectTable: "if not state.feedback" instead of "is None", so
\* an empty feedback string counts as no feedback.
SelectTableTruthy(tbls, fb, idx) ==
    IF fb = None \/ fb = "" THEN FirstUnextracted(tbls) ELSE idx

\* Variant of SelectTable: the refinement branch is missing, every call
\* takes a new table.
SelectTableAlwaysNew(tbls, fb, idx) == FirstUnextracted(tbls)

\* lines 54-71: current_idx.
SelectTable(tbls, fb, idx) ==
    IF fb = None THEN FirstUnextracted(tbls) ELSE idx

\* get_page (lines 93-97): position of the first page p with
\* p["number"] - 1 == page_nr, 0 when there is none (the function returns None).
get_page(pgs, page_nr) ==
    IF \E i \in 1..Len(pgs) : pgs[i].number - 1 = page_nr
    THEN CHOOSE i \in 1..Len(pgs) :
             /\ pgs[i].number - 1 = page_nr
             /\ \A j \in 1..(i - 1) : pgs[j].number - 1 # page_nr
    ELSE 0

\* lines 81-102: the messages of the extraction prompt for current_table.
ExtractMessages(pgs, current_table, fb) ==
    <<[type |-> "system", body |-> <<"EXTRACT_DATA", "format_instructions">>],
      [type |-> "text", body |-> <<"OCR Text: ">> \o current_table.content]>>
    \o [k \in 1..Len(current_table.pages) |->
           [type |-> "image_url",
            body |-> pgs[get_page(pgs, current_table.pages[k])].base64]]

\* Variant of SetExtractedData: the rows of the new answer are appended to
\* the rows of the previous one.
SetExtractedDataMerged(t, resp) ==
    [f \in (DOMAIN t) \cup {"extracted_data"} |->
        IF f = "extracted_data"
        THEN IF "extracted_data" \in DOMAIN t
             THEN [resp EXCEPT !.table_data = t.extracted_data.table_data \o @]
             ELSE resp
        ELSE t[f]]

\* line 118: update_tables[current_idx]["extracted_data"] = resp
SetExtractedData(t, resp) ==
    [f \in (DOMAIN t) \cup {"extracted_data"} |->
        IF f = "extracted_data" THEN resp ELSE t[f]]

\* lines 106-116: the value of resp, given what chain.invoke did.
ExtractResponse(out) ==
    IF out.kind = "content_filter" THEN EmptyResult ELSE out.resp

\* Variant of ExtractRaises: no except clause, every exception leaves.
ExtractRaisesUncaught(out) == out.kind # "ok"

\* lines 108-116: whether the exception leaves the handler.
ExtractRaises(out) == out.kind = "error"

\* line 77: pickle.dump(state, f), the handler's input state.
PickledState ==
    [doc_path |-> doc_path, error |-> error,
     pdf_page_images |-> pdf_page_images, pages |-> pages, tables |-> tables,
     feedback |-> feedback, retry_counter |-> retry_counter,
     curr_table_idx |-> curr_table_idx]

\* extract_table_data_agent._extract_table_data
ExtractTableData ==
    /\ stage = "extract_table_data" /\ node = "extract_table_data"
    /\ LET current_idx == SelectTable(tables, feedback, curr_table_idx)
       IN IF current_idx = NoIdx
          THEN \* data for all tables is extracted
               /\ step2_pkl' = IF SKIP_STEP_2 = "False"
                                THEN [exists |-> TRUE, state |-> PickledState]
                                ELSE step2_pkl
               /\ stage' = Edge("extract_table_data")
               /\ node' = "init"
               /\ loopEnd' = "all_extracted"
               /\ UNCHANGED <<tables, curr_table_idx>>
               /\ UNCHANGED <<lastCall, attempts, verifications, inProgress>>
          ELSE LET current_table == tables[current_idx + 1]
               IN IF \E k \in 1..Len(current_table.pages) :
                        get_page(pages, current_table.pages[k]) = 0
                  THEN \* None["base64"]: TypeError
                       /\ stage' = "raised" /\ node' = node
                       /\ loopEnd' = "raised"
                       /\ UNCHANGED <<tables, curr_table_idx, step2_pkl>>
                       /\ UNCHANGED <<lastCall, attempts, verifications, inProgress>>
                  ELSE \E out \in ExtractOutcomes :
                         /\ lastCall' = [op |-> "extract",
                                         idx |-> current_idx,
                                         pending |-> feedback,
                                         messages |-> ExtractMessages(pages, current_table, feedback),
                                         outcome |-> out.kind]
                         /\ attempts' = attempts + 1
                         /\ verifications' = verifications
                         /\ inProgress' = inProgress \cup {current_idx}
                         /\ step2_pkl' = step2_pkl
                         /\ loopEnd' = IF ExtractRaises(out) THEN "raised" ELSE loopEnd
                         /\ IF ExtractRaises(out)
                            THEN /\ stage' = "raised" /\ node' = node
                                 /\ UNCHANGED <<tables, curr_table_idx>>
                            ELSE /\ tables' = [tables EXCEPT ![current_idx + 1] =
                                        SetExtractedData(@, ExtractResponse(out))]
                                 /\ curr_table_idx' = current_idx
                                 /\ stage' = stage
                                 /\ node' = "verify_table_data"
    /\ UNCHANGED <<doc_path, error, pdf_page_images, pages>>
    /\ UNCHANGED <<feedback, retry_counter, SKIP_STEP_2>>
    /\ UNCHANGED obsMerge
    /\ UNCHANGED <<sideVars, fileVars>>

\* Variant of RetriesExhausted: ">" instead of ">=".
RetriesExhaustedOffByOne(counter) == counter > max_n_retries

\* Variant of RetriesExhausted: the limit is compared with one less.
RetriesExhaustedEarly(counter) == counter >= max_n_retries - 1

\* line 131: too many re-extraction trials.
RetriesExhausted(counter) == counter >= max_n_retries

\* Variant of CounterAfterVerify: the counter is not reset when the table is
\* accepted.
CounterAfterVerifyNoReset(curr_retry_counter, reextraction_necessary) ==
    IF reextraction_necessary THEN curr_retry_counter + 1 ELSE curr_retry_counter

\* Variant of CounterAfterVerify: the counter is doubled on a retry.
CounterAfterVerifyDoubled(curr_retry_counter, reextraction_necessary) ==
    IF reextraction_necessary
    THEN curr_retry_counter * 2
    ELSE init_val_for_retry_counter

\* lines 160-165: the retry_counter of the update, given the verifier's answer.
CounterAfterVerify(curr_retry_counter, reextraction_necessary) ==
    IF reextraction_necessary
    THEN curr_retry_counter + 1
    ELSE init_val_for_retry_counter

\* extract_table_data_agent._verify_table_data
VerifyTableData ==
    /\ stage = "extract_table_data" /\ node = "verify_table_data"
    /\ IF RetriesExhausted(retry_counter)
       THEN \* leave without doing anything (clear feedback, reset counter)
            /\ feedback' = None
            /\ retry_counter' = init_val_for_retry_counter
            /\ stage' = stage
            /\ node' = "extract_table_data"
            /\ lastCall' = [op |-> "verify_skipped", idx |-> curr_table_idx]
            /\ attempts' = 0
            /\ verifications' = 0
            /\ inProgress' = inProgress \ {curr_table_idx}
            /\ loopEnd' = loopEnd
       ELSE \E out \in VerifyOutcomes :
              /\ lastCall' = [op |-> "verify",
                              idx |-> curr_table_idx,
                              table_data |-> tables[curr_table_idx + 1],
                              outcome |-> out.kind,
                              answer |-> out.reextraction_necessary]
              /\ IF out.kind # "ok"
                 THEN \* chain.invoke raised; nothing catches it
                      /\ stage' = "raised" /\ node' = node
                      /\ verifications' = verifications + 1
                      /\ loopEnd' = "raised"
                      /\ UNCHANGED <<feedback, retry_counter, attempts, inProgress>>
                 ELSE IF out.reextraction_necessary
                 THEN \* repeat extraction for this table
                      /\ feedback' = out.feedback
                      /\ retry_counter' = CounterAfterVerify(retry_counter, TRUE)
                      /\ stage' = stage
                      /\ node' = "extract_table_data"
                      /\ verifications' = verifications + 1
                      /\ UNCHANGED <<attempts, inProgress, loopEnd>>
                 ELSE \* extract data for another table
                      /\ feedback' = None
                      /\ retry_counter' = CounterAfterVerify(retry_counter, FALSE)
                      /\ stage' = stage
                      /\ node' = "extract_table_data"
                      /\ attempts' = 0
                      /\ verifications' = 0
                      /\ inProgress' = inProgress \ {curr_table_idx}
                      /\ loopEnd' = loopEnd
    /\ UNCHANGED <<doc_path, error, pdf_page_images, pages, tables, curr_table_idx>>
    /\ UNCHANGED <<envVars, obsMerge>>
    /\ UNCHANGED <<sideVars, fileVars>>

\* ------------------------------------------------- sub-graph table_norming
\* table_norming_agent._init.  The node runs on the TableNormingState of
\* lines 41-47 of table_norming_agent.py, the class construct_table_norming
\* builds the graph from (it replaces the imported one); that class has no
\* field doc_path, so state.doc_path (line 62, before the try of line 68)
\* raises AttributeError.
TableNormingInit ==
    /\ stage = "table_norming" /\ node = "init"
    /\ stage' = "raised"
    /\ UNCHANGED <<node, doc_path, error, pdf_page_images, pages, tables>>
    /\ UNCHANGED <<loopVars, envVars, obsMerge, obsLoop>>
    /\ UNCHANGED <<sideVars, fileVars>>

\* ------------------------------------------- the per-document artifact file
\* The save handlers of the workflows of src/main.py (ocr, extract_main_data)
\* and of extract_table_data, applied to an artifact file found in any
\* condition.
OcrTexts == {"text one", "text two"}

\* MainInfo.model_dump() for the MainInfo values of the runs.
MainInfos ==
    {[k \in {"supplier", "invoice_number", "invoice_date"} |->
         CASE k = "supplier" -> s
           [] k = "invoice_number" -> n
           [] k = "invoice_date" -> "2024-01-31"] :
        s \in {"ACME", "null"}, n \in {"4711", "null"}}

Confidences == {"VERIFIED", "CERTAIN"}

\* state.reason: the default, or the reason of the verification that sent
\* the workflow to the retry.
Reasons == {"", "supplier looks wrong"}

\* Files an earlier run or another program may have left.
EarlierFiles ==
    {Absent, Malformed, JsonArray,
     JsonObject([k \in {"ocr_text"} |-> "text one"]),
     JsonObject([k \in {"ocr_text", "supplier", "confidence"} |->
                   CASE k = "ocr_text" -> "text one"
                     [] k = "supplier" -> "OLD"
                     [] k = "confidence" -> "UNSURE"]),
     JsonObject([k \in {"table_data"} |-> "rows"])}

SaveInit ==
    /\ stage = "save"
    /\ node = "init"
    /\ doc_path = "input_data/doc.pdf"
    /\ error = ""
    /\ pdf_page_images = <<>>
    /\ pages = <<>>
    /\ tables = <<>>
    /\ feedback = None
    /\ retry_counter = init_val_for_retry_counter
    /\ curr_table_idx = NoIdx
    /\ SKIP_STEP_2 = None
    /\ step2_pkl = NoFile
    /\ fragments = <<>>
    /\ fragPages = <<>>
    /\ spillCalls = <<>>
    /\ mergedFrom = <<>>
    /\ relevance = <<>>
    /\ lastCall = NoCall
    /\ attempts = 0
    /\ verifications = 0
    /\ inProgress = {}
    /\ loopEnd = "no"
    /\ docs_left = 0
    /\ artifact \in EarlierFiles
    /\ lastWrite = NoWrite
    /\ analysis = NoneData
    /\ main_data = NoneData
    /\ file_names = NoneData
    /\ norming = TableNormingState
    /\ usual_components = {}

\* Variant of WriteFile: the file is opened with mode "a".
WriteFileAppend(old, data) ==
    IF old.kind = "absent" THEN JsonObject(data) ELSE Malformed

\* with open(json_file_path, "w") as json_file: json.dump(data, json_file)
WriteFile(old, data) == JsonObject(data)

\* dict.update: existing_data.update(data)
DictUpdate(existing_data, data) ==
    [k \in (DOMAIN existing_data) \cup (DOMAIN data) |->
        IF k \in DOMAIN data THEN data[k] ELSE existing_data[k]]

\* ocr_agent._save_ocr_text, lines 87-91.
SaveOcrText ==
    /\ stage = "save"
    /\ \E extracted_text \in OcrTexts :
         LET data == [k \in {"ocr_text"} |-> extracted_text]
         IN /\ artifact' = WriteFile(artifact, data)
            /\ lastWrite' = [op |-> "save_ocr_text", data |-> data,
                             outcome |-> "written"]
    /\ UNCHANGED <<tableVars, loopVars, envVars, obsMerge, obsLoop, sideVars>>

\* extract_main_data_agent.save_main_info, lines 216-237.
SaveMainInfo ==
    /\ stage = "save"
    /\ \E main_info \in MainInfos, confidence \in Confidences, reason \in Reasons :
         LET data == DictUpdate(main_info,
                        [k \in {"confidence", "reason"} |->
                            IF k = "confidence" THEN confidence ELSE reason])
             rec(outcome) == [op |-> "save_main_info", data |-> data,
                              outcome |-> outcome]
         IN CASE artifact.kind = "absent" ->
                   /\ artifact' = WriteFile(artifact, data)
                   /\ lastWrite' = rec("written")
              [] artifact.kind = "malformed" ->
                   \* json.JSONDecodeError: only the new data is used
                   /\ artifact' = WriteFile(artifact, data)
                   /\ lastWrite' = rec("written")
              [] artifact.kind = "array" ->
                   \* existing_data.update raises AttributeError, line 227
                   /\ artifact' = artifact
                   /\ lastWrite' = rec("raised")
              [] artifact.kind = "object" ->
                   /\ artifact' = WriteFile(artifact, DictUpdate(artifact.value, data))
                   /\ lastWrite' = rec("written")
    /\ UNCHANGED <<tableVars, loopVars, envVars, obsMerge, obsLoop, sideVars>>

\* extract_table_data_agent.save_table_data: state.table_data_result (line
\* 187) is not a field of ExtractTableDataState (model.py lines 33-42), the
\* read raises AttributeError before the file is opened.
SaveTableData ==
    /\ stage = "save"
    /\ artifact' = artifact
    /\ lastWrite' = [op |-> "save_table_data", outcome |-> "raised"]
    /\ UNCHANGED <<tableVars, loopVars, envVars, obsMerge, obsLoop, sideVars>>

SaveNext ==
    \/ SaveOcrText
    \/ SaveMainInfo
    \/ SaveTableData

SaveSpec == SaveInit /\ [][SaveNext]_vars

\* ------------------------------ sub-graph table_norming after its init node
\* The nodes normalize_table, check_abnormal_material and
\* save_normalized_table, run on the states the two returns of _init (lines
\* 73 and 77) describe.  Each node has a static edge to the next one (lines
\* 214-216); the goto of a Command adds to the static edges, so the next node
\* runs whatever the Command names.
Elements == {"SiO2", "Al2O3", "Xx"}

\* Largest number of molecules of an example.
MaxMolecules == 2

MoleculeLists ==
    UNION {[1..n -> [element : Elements, percentage : {"65.8"}]] :
              n \in 1..MaxMolecules}

\* What the JsonOutputParser returns for an LLM answer: a dict with the keys
\* of NormalizedTableResult (only "examples" is read later on); one or two
\* examples.
NormResponses ==
    {Dict([examples |-> <<[id |-> 1, molecules |-> m]>>]) : m \in MoleculeLists}
    \cup {Dict([examples |->
                   <<[id |-> 1, molecules |-> m],
                     [id |-> 2, molecules |->
                        <<[element |-> "SiO2", percentage |-> "65.8"]>>]>>]) :
             m \in MoleculeLists}

TableDatas == {EmptyDict, Dict([rows |-> "rows of table 0"])}

\* bool(x) of Python for a dict-typed field: None and {} are falsy.
Truthy(d) == d.py = "dict" /\ ~d.empty

\* Whether obj.examples can be read: a dict has keys, not attributes.
HasExamples(obj) == obj.py = "model"

NormInit ==
    /\ stage = "table_norming"
    /\ node = "normalize_table"
    /\ doc_path = "input_data/doc.pdf"
    /\ error = ""
    /\ pdf_page_images = <<>>
    /\ pages = <<>>
    /\ tables = <<>>
    /\ feedback = None
    /\ retry_counter = init_val_for_retry_counter
    /\ curr_table_idx = NoIdx
    /\ SKIP_STEP_2 = None
    /\ step2_pkl = NoFile
    /\ fragments = <<>>
    /\ fragPages = <<>>
    /\ spillCalls = <<>>
    /\ mergedFrom = <<>>
    /\ relevance = <<>>
    /\ lastCall = NoCall
    /\ attempts = 0
    /\ verifications = 0
    /\ inProgress = {}
    /\ loopEnd = "no"
    /\ docs_left = 0
    /\ artifact = Absent
    /\ lastWrite = NoWrite
    /\ analysis = NoneData
    /\ main_data = NoneData
    /\ file_names = NoneData
    /\ \/ \E td \in TableDatas :
            norming = [TableNormingState EXCEPT !.table_data = td]
       \/ norming = [TableNormingState EXCEPT
                       !.table_data = EmptyDict,
                       !.error = "Expected 'table_data' in the file"]
    /\ usual_components \in SUBSET Elements

\* What the try block of _normalize_table (lines 97-112) can do: return the
\* parsed answer, or raise (building the prompt, the LLM call, the parser).
NormOutcomes ==
    {[kind |-> "ok", resp |-> r] : r \in NormResponses}
    \cup {[kind |-> "error", resp |-> NoneData]}

\* Variant of NormalizeRaises: there is no except clause, the exception of
\* the chain leaves the handler.
NormalizeRaisesUncaught(out) == out.kind = "error"

\* lines 114-116: "except Exception" catches whatever the try block raises.
NormalizeRaises(out) == FALSE

\* table_norming_agent._normalize_table
NormalizeTable ==
    /\ stage = "table_norming" /\ node = "normalize_table"
    /\ IF norming.error # None /\ norming.error # ""
       THEN /\ norming' = norming
            /\ node' = "check_abnormal_material" /\ stage' = stage
       ELSE IF ~Truthy(norming.table_data)
            THEN /\ norming' = [norming EXCEPT !.error = "No table data to normalize"]
                 /\ node' = "check_abnormal_material" /\ stage' = stage
            ELSE \E out \in NormOutcomes :
                   IF NormalizeRaises(out)
                   THEN /\ stage' = "raised"
                        /\ UNCHANGED <<node, norming>>
                   ELSE /\ norming' = IF out.kind = "ok"
                                      THEN [norming EXCEPT !.normalized_table = out.resp]
                                      ELSE [norming EXCEPT !.error = "Normalization failed"]
                        /\ node' = "check_abnormal_material" /\ stage' = stage
    /\ UNCHANGED <<doc_path, error, pdf_page_images, pages, tables>>
    /\ UNCHANGED <<loopVars, envVars, obsMerge, obsLoop, docs_left, fileVars, auxVars>>
    /\ UNCHANGED usual_components

\* lines 145-148: the elements of an example that are not usual components,
\* in molecule order.
RECURSIVE unusual_elements(_, _, _)
unusual_elements(molecules, usual, k) ==
    IF k > Len(molecules) THEN <<>>
    ELSE (IF molecules[k].element \notin usual
          THEN <<molecules[k].element>> ELSE <<>>)
         \o unusual_elements(molecules, usual, k + 1)

\* lines 142-150: abnormal_materials, a dict from example id to its unusual
\* elements, with an entry only where there is one.
abnormal_materials(examples, usual) ==
    LET ids == {examples[i].id : i \in 1..Len(examples)}
        of(id) == CHOOSE i \in 1..Len(examples) :
                     /\ examples[i].id = id
                     /\ \A j \in (i + 1)..Len(examples) : examples[j].id # id
    IN [id \in {x \in ids :
                  unusual_elements(examples[of(x)].molecules, usual, 1) # <<>>} |->
           unusual_elements(examples[of(id)].molecules, usual, 1)]

\* table_norming_agent._check_abnormal_material
CheckAbnormalMaterial ==
    /\ stage = "table_norming" /\ node = "check_abnormal_material"
    /\ IF ~Truthy(norming.normalized_table)
       THEN norming' = [norming EXCEPT !.error = "No normalized table data to check"]
       ELSE IF HasExamples(norming.normalized_table)
            THEN LET am == abnormal_materials(norming.normalized_table.examples,
                                              usual_components)
                 IN norming' = [norming EXCEPT
                                  !.abnormal_material = (DOMAIN am # {}),
                                  !.abnormal_details = am]
            ELSE \* state.normalized_table.examples (line 144) raises
                 \* AttributeError on the dict; caught at line 160
                 norming' = [norming EXCEPT !.error = "Abnormal material check failed"]
    /\ node' = "save_normalized_table"
    /\ UNCHANGED <<stage, doc_path, error, pdf_page_images, pages, tables>>
    /\ UNCHANGED <<loopVars, envVars, obsMerge, obsLoop, docs_left, fileVars, auxVars>>
    /\ UNCHANGED usual_components

\* table_norming_agent.save_normalized_table: with a normalized table set,
\* state.doc_path (line 178, inside the try) raises AttributeError, caught at
\* line 197: no file is written.  The sub-graph ends, the invoke returns.
SaveNormalizedTable ==
    /\ stage = "table_norming" /\ node = "save_normalized_table"
    /\ IF ~Truthy(norming.normalized_table)
       THEN norming' = norming
       ELSE norming' = [norming EXCEPT !.error = "Failed to save normalized table"]
    /\ stage' = Edge("table_norming")
    /\ node' = "init"
    /\ UNCHANGED <<doc_path, error, pdf_page_images, pages, tables>>
    /\ UNCHANGED <<loopVars, envVars, obsMerge, obsLoop, docs_left, fileVars, auxVars>>
    /\ UNCHANGED usual_components

NormNext ==
    \/ NormalizeTable
    \/ CheckAbnormalMaterial
    \/ SaveNormalizedTable

NormSpec == NormInit /\ [][NormNext]_vars

\* ------------------------------------------------- the table serialization
\* A Python str is the sequence of its pieces (the empty str is <<>>), so
\* that concatenation is \o; a value that may be None is Str(s) or NoneData.
MaxRows == 2
MaxCols == 2
MaxCells == 2

Str(s) == [py |-> "str", s |-> s]

\* x.get("content", "") or ""
ContentOrEmpty(v) == IF v.py = "str" THEN v.s ELSE <<>>

\* The state of every variable of the pipeline, the save handlers and the
\* norming sub-graph while none of them runs.
PipelineIdle ==
    /\ stage = "idle"
    /\ node = "init"
    /\ doc_path = ""
    /\ error = ""
    /\ pdf_page_images = <<>>
    /\ pages = <<>>
    /\ tables = <<>>
    /\ feedback = None
    /\ retry_counter = init_val_for_retry_counter
    /\ curr_table_idx = NoIdx
    /\ SKIP_STEP_2 = None
    /\ step2_pkl = NoFile
    /\ fragments = <<>>
    /\ fragPages = <<>>
    /\ spillCalls = <<>>
    /\ mergedFrom = <<>>
    /\ relevance = <<>>
    /\ lastCall = NoCall
    /\ attempts = 0
    /\ verifications = 0
    /\ inProgress = {}
    /\ loopEnd = "no"
    /\ docs_left = 0
    /\ norming = TableNormingState
    /\ usual_components = {}

pipelineVars == <<tableVars, loopVars, envVars, obsMerge, obsLoop, docs_left, normVars>>

\* The cells the service can report: any position of the grid, a content or
\* none; a table: caption missing/null, a caption without content, or a
\* caption with content; cells in any order, possibly two for one position.
CellContents == {Str(<<"a">>), Str(<<"b">>), NoneData}

AnalyzedCells ==
    [rowIndex : 0..(MaxRows - 1), columnIndex : 0..(MaxCols - 1),
     content : CellContents]

CellLists == UNION {[1..n -> AnalyzedCells] : n \in 0..MaxCells}

Captions == {NoneData, [py |-> "dict", content |-> NoneData],
             [py |-> "dict", content |-> Str(<<"Cap">>)]}

AnalyzedTables ==
    [caption : Captions, cells : CellLists,
     columnCount : 0..MaxCols, rowCount : 0..MaxRows]

EmptyTableDict == [caption |-> <<>>, headers |-> <<>>, rows |-> <<>>]

\* lines 95-98: cell_map, the last cell listed for a position wins.
cell_map(cells) ==
    [key \in {<<cells[i].rowIndex, cells[i].columnIndex>> : i \in 1..Len(cells)} |->
        cells[CHOOSE i \in 1..Len(cells) :
                 /\ <<cells[i].rowIndex, cells[i].columnIndex>> = key
                 /\ \A j \in (i + 1)..Len(cells) :
                       <<cells[j].rowIndex, cells[j].columnIndex>> # key]]

\* lines 106-113 and 119-125: the fields of row row_index.
RowOf(cm, row_index, num_columns) ==
    [c \in 1..num_columns |->
        IF <<row_index, c - 1>> \in DOMAIN cm
        THEN ContentOrEmpty(cm[<<row_index, c - 1>>].content)
        ELSE <<>>]

\* Variant of get_table: the data rows start at row index 0
\* (range(num_rows)), so the header row is listed again as a data row.
get_table_RowsFromZero(table) ==
    LET cm == cell_map(table.cells)
    IN [caption |-> IF table.caption.py = "dict"
                    THEN ContentOrEmpty(table.caption.content) ELSE <<>>,
        headers |-> RowOf(cm, 0, table.columnCount),
        rows |-> [r \in 1..table.rowCount |->
                     RowOf(cm, r - 1, table.columnCount)]]

\* get_table (lines 83-129)
get_table(table) ==
    LET cm == cell_map(table.cells)
    IN [caption |-> IF table.caption.py = "dict"
                    THEN ContentOrEmpty(table.caption.content) ELSE <<>>,
        headers |-> RowOf(cm, 0, table.columnCount),
        rows |-> [r \in 1..(table.rowCount - 1) |->
                     RowOf(cm, r, table.columnCount)]]

\* "||".join(parts)
RECURSIVE JoinCols(_)
JoinCols(parts) ==
    IF parts = <<>> THEN <<>>
    ELSE IF Len(parts) = 1 THEN parts[1]
    ELSE parts[1] \o <<"||">> \o JoinCols(Tail(parts))

\* lines 136-137: the data rows, each followed by a newline.
RECURSIVE RowLines(_)
RowLines(rows) ==
    IF rows = <<>> THEN <<>>
    ELSE JoinCols(rows[1]) \o <<"\n">> \o RowLines(Tail(rows))

\* get_table_content (lines 131-138)
get_table_content(table_dict) ==
    table_dict.caption \o <<"\n">>
    \o JoinCols(table_dict.headers) \o <<"\n">>
    \o RowLines(table_dict.rows)

TableInit ==
    /\ PipelineIdle
    /\ artifact = Absent
    /\ lastWrite = NoWrite
    /\ main_data = NoneData
    /\ file_names = NoneData
    /\ \E t \in AnalyzedTables :
          analysis = [step |-> "analyzed", table |-> t,
                      table_dict |-> EmptyTableDict, content |-> <<>>]

\* line 182, inner call: get_table(analyze_result, table_index)
GetTable ==
    /\ analysis.step = "analyzed"
    /\ analysis' = [analysis EXCEPT !.step = "table_dict",
                                    !.table_dict = get_table(analysis.table)]
    /\ UNCHANGED <<pipelineVars, fileVars, main_data, file_names>>

\* line 182, outer call: get_table_content(...)
GetTableContent ==
    /\ analysis.step = "table_dict"
    /\ analysis' = [analysis EXCEPT !.step = "content",
                                    !.content = get_table_content(analysis.table_dict)]
    /\ UNCHANGED <<pipelineVars, fileVars, main_data, file_names>>

TableNext == GetTable \/ GetTableContent

TableSpec == TableInit /\ [][TableNext]_vars

\* ------------------------------------------------- the main-data workflow
\* extract_main_data_agent: init -> get_main_info -> verify_main_info ->
\* (save_main_info | retry_get_main_info -> verify_main_info | END).
\* main_data holds the fields of ExtractMainDataState (model.py lines 26-31)
\* and, as observations, the number of LLM calls made and the result of the
\* last verification.
ExtractMainDataState ==
    [ocr_text |-> "", main_info |-> NoneData, confidence |-> "", reason |-> "",
     retried |-> FALSE,
     extractions |-> 0, verifications |-> 0, last_result |-> ""]

\* MainInfoResult(supplier="null", ...).model_dump(), as the MainInfo the
\* state keeps of it (lines 111-116).
NullMainInfo ==
    [k \in {"supplier", "invoice_number", "invoice_date"} |-> "null"]

\* What chain.invoke of _get_main_info and of _retry_get_main_info can do.
MainInfoOutcomes ==
    {[kind |-> "ok", resp |-> r] : r \in MainInfos}
    \cup {[kind |-> "content_filter", resp |-> NoneData],
          [kind |-> "error", resp |-> NoneData]}

\* VerifyResult.result is a str: the four options of the prompt, or anything
\* else the LLM writes.
VerifyResults == {"VERIFIED", "CERTAIN", "UNSURE", "FALSE", "PROBABLY"}

VerifyReasons == {"null", "supplier looks wrong"}

\* What chain.invoke of _verfiy_main_info can do (no try around it).
MainVerifyOutcomes ==
    {[kind |-> "ok", result |-> r, reason |-> x] :
        r \in VerifyResults, x \in VerifyReasons}
    \cup {[kind |-> "error", result |-> "", reason |-> ""]}

\* Variant of Accepted: UNSURE is accepted as well.
AcceptedOrUnsure(result) == result \in {"VERIFIED", "CERTAIN", "UNSURE"}

\* line 145: resp.result in ["VERIFIED", "CERTAIN"]
Accepted(result) == result \in {"VERIFIED", "CERTAIN"}

\* Variant of GivesUp: the workflow never gives up.
GivesUpNever(retried) == FALSE

\* line 148: if state.retried, the workflow ends instead of retrying.
GivesUp(retried) == retried

\* Files output_data/<file_name>.json the OCR workflow or another program
\* may have left before the main-data workflow starts.
OcrFiles ==
    {Absent, Malformed, JsonArray,
     JsonObject([k \in {"ocr_text"} |-> "text one"]),
     JsonObject([k \in {"table_data"} |-> "rows"])}

MainInit ==
    /\ PipelineIdle
    /\ artifact \in OcrFiles
    /\ lastWrite = NoWrite
    /\ analysis = NoneData
    /\ file_names = NoneData
    /\ main_data = [step |-> "init", state |-> ExtractMainDataState]

\* extract_main_data_agent._init: open and json.load are not guarded, nor is
\* json_content["ocr_text"].
MainDataInit ==
    /\ main_data.step = "init"
    /\ IF artifact.kind = "object" /\ "ocr_text" \in DOMAIN artifact.value
       THEN main_data' = [main_data EXCEPT
                            !.step = "get_main_info",
                            !.state.ocr_text = artifact.value.ocr_text]
       ELSE \* FileNotFoundError, JSONDecodeError, TypeError or KeyError
            main_data' = [main_data EXCEPT !.step = "raised"]
    /\ UNCHANGED <<pipelineVars, fileVars, analysis, file_names>>

\* extract_main_data_agent._get_main_info
GetMainInfo ==
    /\ main_data.step = "get_main_info"
    /\ \E out \in MainInfoOutcomes :
         IF out.kind = "error"
         THEN main_data' = [main_data EXCEPT
                              !.step = "raised",
                              !.state.extractions = @ + 1]
         ELSE main_data' = [main_data EXCEPT
                              !.step = "verify_main_info",
                              !.state.main_info =
                                  IF out.kind = "ok" THEN out.resp ELSE NullMainInfo,
                              !.state.extractions = @ + 1]
    /\ UNCHANGED <<pipelineVars, fileVars, analysis, file_names>>

\* extract_main_data_agent._verfiy_main_info
VerifyMainInfo ==
    /\ main_data.step = "verify_main_info"
    /\ \E out \in MainVerifyOutcomes :
         IF out.kind = "error"
         THEN main_data' = [main_data EXCEPT
                              !.step = "raised",
                              !.state.verifications = @ + 1]
         ELSE IF Accepted(out.result)
              THEN main_data' = [main_data EXCEPT
                                   !.step = "save_main_info",
                                   !.state.confidence = out.result,
                                   !.state.verifications = @ + 1,
                                   !.state.last_result = out.result]
              ELSE main_data' = [main_data EXCEPT
                                   !.step = IF GivesUp(main_data.state.retried)
                                            THEN "__end__"
                                            ELSE "retry_get_main_info",
                                   !.state.confidence = out.result,
                                   !.state.reason = out.reason,
                                   !.state.verifications = @ + 1,
                                   !.state.last_result = out.result]
    /\ UNCHANGED <<pipelineVars, fileVars, analysis, file_names>>

\* extract_main_data_agent._retry_get_main_info: chain.invoke is not in a
\* try, a content-filter error leaves the handler like any other.
RetryGetMainInfo ==
    /\ main_data.step = "retry_get_main_info"
    /\ \E out \in MainInfoOutcomes :
         IF out.kind # "ok"
         THEN main_data' = [main_data EXCEPT
                              !.step = "raised",
                              !.state.extractions = @ + 1]
         ELSE main_data' = [main_data EXCEPT
                              !.step = "verify_main_info",
                              !.state.main_info = out.resp,
                              !.state.retried = TRUE,
                              !.state.extractions = @ + 1]
    /\ UNCHANGED <<pipelineVars, fileVars, analysis, file_names>>

\* extract_main_data_agent.save_main_info, run as the node of the workflow
\* on the state the workflow has reached.
SaveMainInfoNode ==
    /\ main_data.step = "save_main_info"
    /\ LET st == main_data.state
           data == DictUpdate(st.main_info,
                      [k \in {"confidence", "reason"} |->
                          IF k = "confidence" THEN st.confidence ELSE st.reason])
           rec(outcome) == [op |-> "save_main_info", data |-> data,
                            outcome |-> outcome]
       IN IF artifact.kind = "array"
          THEN \* existing_data.update raises AttributeError, line 227
               /\ artifact' = artifact
               /\ lastWrite' = rec("raised")
               /\ main_data' = [main_data EXCEPT !.step = "raised"]
          ELSE /\ artifact' = WriteFile(artifact,
                                 IF artifact.kind = "object"
                                 THEN DictUpdate(artifact.value, data)
                                 ELSE data)
               /\ lastWrite' = rec("written")
               /\ main_data' = [main_data EXCEPT !.step = "__end__"]
    /\ UNCHANGED <<pipelineVars, analysis, file_names>>

MainNext ==
    \/ MainDataInit
    \/ GetMainInfo
    \/ VerifyMainInfo
    \/ RetryGetMainInfo
    \/ SaveMainInfoNode

MainSpec == MainInit /\ [][MainNext]_vars

\* The graph runner runs the node a Command names.
MainFairSpec == MainSpec /\ WF_vars(MainNext)

\* ------------------------------------------------ the artifact file names
\* A document reference is a local path or a URL "https://host" + path; its
\* text is a sequence of pieces none of which is split further: names, ".",
\* "/" and "\".
MaxExts == 2

\* File names: a base name followed by up to MaxExts extensions.
FileNames ==
    UNION {{<<base>> \o e : base \in {"doc", "report"}} :
             e \in UNION {{[i \in 1..(2 * n) |->
                              IF i % 2 = 1 THEN "." ELSE x[i \div 2]] :
                             x \in [1..n -> {"pdf", "v2"}]} : n \in 0..MaxExts}}

\* state.doc_path: os.path.join("input_data", filename) of main_local_files
\* (separator "/" or, on Windows, "\"), a bare file name, or a URL whose path
\* is empty, "/" or "/" and a file name.
DocRefs ==
    {[url |-> FALSE, text |-> d \o f] :
        d \in {<<>>, <<"input_data", "/">>, <<"input_data", "\\">>},
        f \in FileNames}
    \cup {[url |-> TRUE, text |-> t] :
             t \in {<<>>, <<"/">>} \cup {<<"/">> \o f : f \in FileNames}}

\* The whole string of a document reference.
DocString(ref) ==
    IF ref.url THEN <<"https:", "/", "/", "host">> \o ref.text ELSE ref.text

\* s.split(sep)[-1]
LastSegment(s, sep) ==
    IF \E i \in 1..Len(s) : s[i] = sep
    THEN LET i == CHOOSE k \in 1..Len(s) :
                     s[k] = sep /\ \A j \in (k + 1)..Len(s) : s[j] # sep
         IN SubSeq(s, i + 1, Len(s))
    ELSE s

\* s.split(sep)[0]
FirstSegment(s, sep) ==
    IF \E i \in 1..Len(s) : s[i] = sep
    THEN LET i == CHOOSE k \in 1..Len(s) :
                     s[k] = sep /\ \A j \in 1..(k - 1) : s[j] # sep
         IN SubSeq(s, 1, i - 1)
    ELSE s

\* re.sub(r"[^a-zA-Z0-9_.-]", "_", s)
Sanitize(s) == [i \in 1..Len(s) |-> IF s[i] \in {"\\", "/"} THEN "_" ELSE s[i]]

\* s.removeprefix(prefix)
RemovePrefix(s, prefix) ==
    IF Len(s) >= Len(prefix) /\ SubSeq(s, 1, Len(prefix)) = prefix
    THEN SubSeq(s, Len(prefix) + 1, Len(s))
    ELSE s

\* The URL branch of _save_ocr_text (lines 69-82), of
\* extract_main_data_agent._init (66-71) and of save_main_info (199-211);
\* url_path is urlparse(doc_path).path.
url_file_name(url_path) ==
    LET last == LastSegment(url_path, "/")
        filename_from_url == IF last = <<>> THEN <<"url_doc">> ELSE last
        file_name == FirstSegment(Sanitize(filename_from_url), ".")
    IN IF file_name = <<>> THEN <<"url_document">> ELSE file_name

\* The local branch (ocr_agent line 85, save_main_info line 214).
local_file_name(path) == FirstSegment(LastSegment(path, "/"), ".")

\* ocr_agent._save_ocr_text, lines 67-85
ocr_file_name(ref) ==
    IF ref.url THEN url_file_name(ref.text) ELSE local_file_name(ref.text)

\* extract_main_data_agent._init, lines 65-74
main_init_file_name(ref) ==
    IF ref.url THEN url_file_name(ref.text)
    ELSE RemovePrefix(local_file_name(ref.text), <<"input_data", "\\">>)

\* extract_main_data_agent.save_main_info, lines 197-214
save_main_info_file_name(ref) ==
    IF ref.url THEN url_file_name(ref.text) ELSE local_file_name(ref.text)

\* pathlib: Path(s).name, the last component of s that is neither empty nor
\* "." (no component: the empty string).
RECURSIVE PathName(_)
PathName(s) ==
    IF s = <<>> THEN <<>>
    ELSE LET last == LastSegment(s, "/")
         IN IF last \in {<<>>, <<".">>}
            THEN IF Len(last) = Len(s) THEN <<>>
                 ELSE PathName(SubSeq(s, 1, Len(s) - Len(last) - 1))
            ELSE last

\* pathlib: Path(s).stem, the name without its last suffix; a "." at the
\* start or at the end of the name starts no suffix.
PathStem(s) ==
    LET name == PathName(s)
        dots == {i \in 1..Len(name) : name[i] = "."}
    IN IF dots = {} THEN name
       ELSE LET i == CHOOSE k \in dots : \A j \in dots : j <= k
            IN IF 1 < i /\ i < Len(name) THEN SubSeq(name, 1, i - 1) ELSE name

\* table_norming_agent._init, line 66: Path(path).stem
norming_file_name(ref) == PathStem(DocString(ref))

NamesInit ==
    /\ PipelineIdle
    /\ artifact = Absent
    /\ lastWrite = NoWrite
    /\ analysis = NoneData
    /\ main_data = NoneData
    /\ \E ref \in DocRefs :
          file_names = [step |-> "ocr", doc_path |-> ref,
                        ocr |-> <<>>, main_init |-> <<>>,
                        main_save |-> <<>>, norming |-> <<>>]

\* _save_ocr_text names the file it writes.
OcrFileName ==
    /\ file_names.step = "ocr"
    /\ file_names' = [file_names EXCEPT
                        !.step = "main_init",
                        !.ocr = ocr_file_name(file_names.doc_path)]
    /\ UNCHANGED <<pipelineVars, fileVars, analysis, main_data>>

\* extract_main_data_agent._init names the file it reads.
MainInitFileName ==
    /\ file_names.step = "main_init"
    /\ file_names' = [file_names EXCEPT
                        !.step = "main_save",
                        !.main_init = main_init_file_name(file_names.doc_path)]
    /\ UNCHANGED <<pipelineVars, fileVars, analysis, main_data>>

\* save_main_info names the file it merges into.
SaveMainInfoFileName ==
    /\ file_names.step = "main_save"
    /\ file_names' = [file_names EXCEPT
                        !.step = "norming",
                        !.main_save = save_main_info_file_name(file_names.doc_path)]
    /\ UNCHANGED <<pipelineVars, fileVars, analysis, main_data>>

\* table_norming_agent._init names the file it reads.
NormingFileName ==
    /\ file_names.step = "norming"
    /\ file_names' = [file_names EXCEPT
                        !.step = "done",
                        !.norming = norming_file_name(file_names.doc_path)]
    /\ UNCHANGED <<pipelineVars, fileVars, analysis, main_data>>

NamesNext ==
    \/ OcrFileName
    \/ MainInitFileName
    \/ SaveMainInfoFileName
    \/ NormingFileName

NamesSpec == NamesInit /\ [][NamesNext]_vars

\* ------------------------------------------------------------ specification
Next ==
    \/ InvokeGraph
    \/ TableNormingInit
    \/ ExtractTablesInit
    \/ PdfToBase64Images
    \/ ExtractTablesAndPageContents
    \/ ConcatenateTables
    \/ FilterIrrelevantTables
    \/ ExtractTableDataInit
    \/ ExtractTableData
    \/ VerifyTableData

Spec == Init /\ [][Next]_vars

\* The graph runner executes the next node as long as there is one.
FairSpec == Spec /\ WF_vars(Next)

\* ------------------------------------------------------------------ claims
InExtract == stage = "extract_table_data" /\ node = "extract_table_data"
InVerify == stage = "extract_table_data" /\ node = "verify_table_data"

\* The step makes an extraction LLM call / a verification LLM call.
ExtractionCall == InExtract /\ lastCall'.op = "extract"
VerificationCall == InVerify /\ lastCall'.op = "verify"

AllExtracted == \A i \in 1..Len(tables) : ~Unextracted(tables[i])

\* C1: retry cap.  Each verification answer reextraction_necessary = true
\* (only asked while retry_counter < 3) increments retry_counter by one and
\* sends the same table back to extraction; the step that clears the feedback
\* without an answer "false" (the cap) is taken with retry_counter = 3 after
\* exactly 3 extraction calls and 2 verification calls for the table in
\* progress, and resets retry_counter to 1.
C1_Step ==
    /\ (ExtractionCall /\ feedback = None)
         => /\ attempts = 0
            /\ retry_counter = 1
    /\ VerificationCall
         => /\ retry_counter = attempts
            /\ retry_counter < 3
    /\ (VerificationCall /\ lastCall'.outcome = "ok" /\ lastCall'.answer)
         => /\ retry_counter' = retry_counter + 1
            /\ feedback' # None
            /\ node' = "extract_table_data"
            /\ attempts' = attempts
            /\ inProgress' = {curr_table_idx}
    /\ (InExtract /\ feedback # None /\ vars' # vars)
         => /\ attempts' = attempts + 1
            /\ lastCall'.idx = curr_table_idx
            /\ retry_counter' = retry_counter
    /\ (InVerify /\ vars' # vars /\ ~VerificationCall)
         => /\ lastCall'.op = "verify_skipped"
            /\ attempts = 3
            /\ verifications = 2
            /\ retry_counter = 3
            /\ retry_counter' = 1
            /\ feedback' = None
            /\ node' = "extract_table_data"
            /\ inProgress = {curr_table_idx}

C1_RetryCap == [][C1_Step]_vars

C1_Witness ==
    /\ InExtract
    /\ lastCall.op = "verify_skipped"
    /\ retry_counter = 1
    /\ feedback = None
    /\ ~Unextracted(tables[lastCall.idx + 1])

\* C2: when every LLM call of the loop returned a result or failed with a
\* content-filter error, then once the extraction loop (entered, not
\* skipped) has ended, every table carries a non-null extracted_data.
C2_EndsWithAllExtracted ==
    (/\ SKIP_STEP_2 # "True"
     /\ loopEnd # "no"
     /\ lastCall.op \in {"extract", "verify"} => lastCall.outcome # "error")
    => AllExtracted

\* C3: at most one table is in progress; an extraction call targets a table
\* only if no other table is in progress, and a verification call is made
\* for the one table in progress.
C3_Step ==
    /\ Cardinality(inProgress') <= 1
    /\ ExtractionCall => inProgress \subseteq {lastCall'.idx}
    /\ VerificationCall => inProgress = {lastCall'.idx}
    /\ (InVerify /\ feedback' = None /\ stage' # "raised") => inProgress' = {}

C3_OneTableInProgress == [][C3_Step]_vars

C3_Witness ==
    /\ InVerify
    /\ inProgress = {1}
    /\ feedback # None
    /\ Len(tables) >= 3
    /\ Unextracted(tables[3])

\* C4: with feedback pending (verification asked for a re-extraction), the
\* next step of the extraction node is an extraction call for the table
\* that was just verified, the one at curr_table_idx, and it rewrites that
\* table only.
C4_Step ==
    (InExtract /\ feedback # None /\ vars' # vars)
    => /\ lastCall.op = "verify"
       /\ ExtractionCall
       /\ lastCall'.idx = lastCall.idx
       /\ lastCall'.idx = curr_table_idx
       /\ curr_table_idx' = curr_table_idx
       /\ \A j \in 1..Len(tables) : j # curr_table_idx + 1 => tables'[j] = tables[j]

C4_ReextractSameTable == [][C4_Step]_vars

C4_Witness ==
    /\ InVerify
    /\ lastCall.op = "extract"
    /\ lastCall.pending # None
    /\ lastCall.idx = curr_table_idx
    /\ \E j \in 1..Len(tables) : Unextracted(tables[j])

\* A prompt includes a text when the text is a part of one of its text
\* messages (the empty string is a part of any text).
PromptIncludes(messages, text) ==
    \/ text = ""
    \/ \E k \in 1..Len(messages) :
          /\ messages[k].type # "image_url"
          /\ text \in Range(messages[k].body)

\* C5: the prompt of every re-extraction (an extraction call made with
\* feedback pending) includes the feedback text.
C5_FeedbackInPrompt ==
    (lastCall.op = "extract" /\ lastCall.pending # None)
    => PromptIncludes(lastCall.messages, lastCall.pending)

\* C6: an extraction call that fails with a content-filter error attaches
\* the empty result to the active table and goes on to VERIFY; one that fails
\* with any other error raises and changes no table; one that returns
\* attaches what it returned.
C6_Step ==
    ExtractionCall
    => /\ lastCall'.outcome = "content_filter"
            => /\ stage' = "extract_table_data" /\ node' = "verify_table_data"
               /\ tables'[lastCall'.idx + 1].extracted_data = EmptyResult
               /\ tables'[lastCall'.idx + 1].extracted_data.table_data = <<>>
       /\ lastCall'.outcome = "error"
            => /\ stage' = "raised"
               /\ tables' = tables
       /\ lastCall'.outcome = "ok"
            => /\ node' = "verify_table_data"
               /\ tables'[lastCall'.idx + 1].extracted_data \in LLMResults

C6_ContentFilterSubstituted == [][C6_Step]_vars

C6_Witness ==
    /\ InVerify
    /\ lastCall.op = "extract"
    /\ lastCall.outcome = "content_filter"
    /\ tables[curr_table_idx + 1].extracted_data = EmptyResult

\* The state right after the merge pass.
AfterMerge == stage = "extract_tables" /\ node = "filter_irrelevant_tables"

\* The fragments (0-based numbers) whose content is part of table t.
Contributors(t) ==
    {k \in 0..(Len(fragments) - 1) : TableContent(k)[1] \in Range(t.content)}

\* The number of the merged table fragment f went into.
MergedIdOf(f) ==
    (CHOOSE i \in 1..Len(tables) : f \in Contributors(tables[i])) - 1

\* C7: after the merge pass, two consecutive detected tables whose pages do
\* not differ by exactly 1 are in no common merged table, and
\* check_if_table_spills was not called for the pair.
C7_NonAdjacentNeverMerged ==
    AfterMerge =>
      \A k \in 1..(Len(fragments) - 1) :
        fragments[k + 1].pages[1] # fragments[k].pages[1] + 1
        => /\ \A i \in 1..Len(tables) :
                ~({k - 1, k} \subseteq Contributors(tables[i]))
           /\ \A c \in 1..Len(spillCalls) : spillCalls[c].cand # k

C7_Witness ==
    /\ AfterMerge
    /\ \E k \in 1..(Len(fragments) - 1) :
          fragments[k + 1].pages[1] > fragments[k].pages[1] + 1
    /\ Len(tables) = Len(fragments)
    /\ spillCalls = <<>>

\* C8: after the merge pass, the page_refs of each merged table are the
\* pages of its fragments, each once and ascending, and on every page each
\* fragment id of table_refs has been replaced by the id of the merged table
\* the fragment went into (nothing else added or left).
C8_MergedPageRefs ==
    AfterMerge =>
      /\ \A i \in 1..Len(tables) :
           LET C == Contributors(tables[i])
           IN /\ C # {}
              /\ tables[i].pages = SortedSeq({fragments[k + 1].pages[1] : k \in C})
              /\ Len(tables[i].pages) = Cardinality(C)
              /\ \A k \in C :
                   tables[i].number \in Range(pages[fragments[k + 1].pages[1] + 1].tables)
      /\ Len(pages) = Len(fragPages)
      /\ \A p \in 1..Len(pages) :
           /\ Len(pages[p].tables) = Len(fragPages[p].tables)
           /\ Range(pages[p].tables) = {MergedIdOf(f) : f \in Range(fragPages[p].tables)}

C8_Witness ==
    /\ AfterMerge
    /\ \E i \in 1..Len(tables) :
          /\ Len(tables[i].pages) >= 2
          /\ tables[i].number # fragments[1].number
    /\ \E p \in 1..Len(pages) : Len(pages[p].tables) >= 2

\* The 3-page document of C9: fragments on pages 1, 2 and 3, the boundary
\* between pages 1 and 2 classified CONTINUOUS.
C9_Scenario ==
    /\ Len(fragPages) = 3
    /\ Len(fragments) = 3
    /\ \A k \in 1..3 : fragments[k].pages = <<k - 1>>
    /\ Len(spillCalls) >= 1
    /\ spillCalls[1].prev = 0 /\ spillCalls[1].cand = 1
    /\ spillCalls[1].answer

\* C9 as stated: in that scenario the table on page 3 is never submitted to
\* the classifier and the merge yields exactly 2 tables.
C9_Page3NeverClassified ==
    (C9_Scenario /\ AfterMerge)
    => /\ \A c \in 1..Len(spillCalls) : spillCalls[c].cand # 2
       /\ Len(tables) = 2

\* C9 as amended: in that scenario the table on page 3 is submitted to the
\* classifier with the images of pages 2 and 3; the merge yields 2 tables if
\* the answer is DISTINCT and 1 if it is CONTINUOUS; with the answer DISTINCT
\* and both tables marked relevant both survive the filter, and when the
\* extraction loop has ended with all tables processed both carry a non-null
\* extracted_data.
C9_ThreePageDocument ==
    C9_Scenario =>
      /\ Len(spillCalls) = 2
      /\ spillCalls[2].prev = 1 /\ spillCalls[2].cand = 2
      /\ spillCalls[2].page1 = PageImage(2) /\ spillCalls[2].page2 = PageImage(3)
      /\ AfterMerge => Len(tables) = (IF spillCalls[2].answer THEN 1 ELSE 2)
      /\ (~spillCalls[2].answer /\ relevance = <<TRUE, TRUE>> /\ loopEnd # "skipped")
           => /\ Len(tables) = 2
              /\ Contributors(tables[1]) = {0, 1}
              /\ Contributors(tables[2]) = {2}
              /\ loopEnd = "all_extracted" => AllExtracted

C9_Witness ==
    /\ C9_Scenario
    /\ ~spillCalls[2].answer
    /\ relevance = <<TRUE, TRUE>>
    /\ loopEnd = "all_extracted"
    /\ Len(tables) = 2
    /\ AllExtracted

\* C10: after the merge pass the table at position i (0-based) of the merged
\* table list has id i.
C10_DenseIds ==
    AfterMerge => \A i \in 1..Len(tables) : tables[i].number = i - 1

C10_Witness ==
    /\ AfterMerge
    /\ Len(tables) >= 2
    /\ \E i \in 1..Len(tables) : Contributors(tables[i]) # {tables[i].number}

\* The state right after the relevance filter of a document with a path.
AfterFilter ==
    /\ stage = "extract_table_data" /\ node = "init"
    /\ doc_path # ""

\* C11 as stated: after the relevance filter the table at position i (0-based)
\* of the table list has id i.
C11_FilterDenseIds ==
    AfterFilter => \A i \in 1..Len(tables) : tables[i].number = i - 1

\* A step of _filter_irrelevant_tables narrows the page list to the pages
\* the surviving tables refer to.
C12_Step ==
    AfterMerge =>
      LET refs == UNION {Range(tables'[i].pages) : i \in 1..Len(tables')}
      IN /\ Len(pages') = Cardinality(refs)
         /\ {pages'[i].number - 1 : i \in 1..Len(pages')} = refs
         /\ \A i \in 1..(Len(pages') - 1) : pages'[i].number < pages'[i + 1].number
         /\ \A i \in 1..Len(pages') : pages'[i] = pages[pages'[i].number]
         /\ (tables' = <<>> => pages' = <<>>)

\* C12: after the relevance filter the page list holds exactly the pages
\* referenced by the pages lists of the surviving tables, each once, in
\* ascending page order and unaltered; it is empty if no table survives.
C12_PagesNarrowed == [][C12_Step]_vars

C12_Witness ==
    /\ AfterFilter
    /\ Len(fragPages) = 3
    /\ Len(pages) = 2
    /\ pages[1].number = 1 /\ pages[2].number = 3
    /\ \E i \in 1..Len(relevance) : ~relevance[i]

\* The positions of S up to k.
UpTo(S, k) == {j \in S : j <= k}

\* A step of _filter_irrelevant_tables keeps the tables answered RELEVANT.
C13_Step ==
    AfterMerge =>
      LET keptIdx == {k \in 1..Len(tables) : relevance'[k]}
      IN /\ relevance = <<>>
         /\ Len(relevance') = Len(tables)
         /\ Len(tables') = Cardinality(keptIdx)
         /\ \A k \in keptIdx : tables'[Cardinality(UpTo(keptIdx, k))] = tables[k]

\* C13: the relevance filter asks check_if_table_relevant once per table, and
\* its table list is the tables answered RELEVANT, in their original order
\* and unaltered; all others are dropped.
C13_KeepsRelevant == [][C13_Step]_vars

C13_Witness ==
    /\ AfterFilter
    /\ Len(relevance) = 3
    /\ relevance[1] /\ ~relevance[2] /\ relevance[3]
    /\ Len(tables) = 2

\* The stages of one document, in the order of the spec: 1 document analysis
\* (path check, page images, analysis service), 2 table merge, 3 relevance
\* filter, 4 per-table extraction loop, 5 normalization.
Phase(st, nd) ==
    CASE st = "extract_tables" /\ nd = "concatenate_tables" -> 2
      [] st = "extract_tables" /\ nd = "filter_irrelevant_tables" -> 3
      [] st = "extract_tables"
           /\ nd \notin {"concatenate_tables", "filter_irrelevant_tables"} -> 1
      [] st = "extract_table_data" -> 4
      [] st = "table_norming" -> 5
      [] OTHER -> 0

\* A step of a running document never goes back to an earlier stage, enters
\* the next stage only from the one before it (a document with a path skips
\* none), makes LLM extraction calls only in the loop, and enters the
\* normalization only when the loop has ended.
C14_Step ==
    /\ (Phase(stage, node) > 0 /\ Phase(stage', node') > 0)
         => /\ Phase(stage', node') >= Phase(stage, node)
            /\ doc_path # "" => Phase(stage', node') <= Phase(stage, node) + 1
    /\ Phase(stage', node') \in 1..3
         => /\ lastCall' = NoCall /\ attempts' = 0 /\ verifications' = 0
            /\ loopEnd' = "no"
    /\ lastCall' # lastCall => Phase(stage, node) = 4
    /\ (Phase(stage', node') = 4 /\ Phase(stage, node) # 4 /\ doc_path # "")
         => /\ Phase(stage, node) = 3
            /\ Len(relevance') = Len(tables)
    /\ (Phase(stage', node') = 5 /\ Phase(stage, node) # 5)
         => /\ Phase(stage, node) = 4
            /\ loopEnd' \in {"all_extracted", "skipped"}
            /\ feedback' = None
            /\ \A i \in 1..Len(tables') : ~Unextracted(tables'[i])

\* C14: for every document the stages run in the order analysis, merge,
\* filter, extraction loop, normalization, each entered only when the one
\* before has ended: no extraction call before the filter has finished, and
\* the normalization starts only after the loop has ended.
C14_StageOrder == [][C14_Step]_vars

C14_Witness ==
    /\ stage = "table_norming" /\ node = "init"
    /\ doc_path # ""
    /\ loopEnd = "all_extracted"
    /\ Len(relevance) >= 2
    /\ Len(tables) >= 1
    /\ Len(spillCalls) >= 1

\* The analysis-service call of the running document has raised.
AnalysisFailed ==
    stage = "raised" /\ node = "extract_tables_and_page_contents"

\* C17 as stated: when the document-analysis call fails the document has no
\* pages and no tables, and if files remain the loop of main_local_files
\* goes on: a graph run for the next file starts.
C17_FailedDocumentSkipped ==
    /\ [](AnalysisFailed => pages = <<>> /\ tables = <<>>)
    /\ (AnalysisFailed /\ docs_left > 0) ~> (stage = START /\ node = "init")

\* A step of the graph run of a document handed over with an empty path.
C18_Step ==
    (doc_path = "" /\ stage # "idle")
    => /\ error' # ""
       /\ pdf_page_images' = <<>> /\ fragments' = <<>>
       /\ spillCalls' = <<>> /\ relevance' = <<>>
       /\ pages' = <<>> /\ tables' = <<>>
       /\ lastCall' = NoCall
       /\ stage' # "raised"

\* C18 as stated: for a document whose path is empty an error is recorded,
\* no page image is rendered, the analysis service, the merge and the filter
\* are not run, pages and tables stay empty, no LLM call is made, and the
\* graph run does not raise (so the batch goes on).
C18_EmptyPathSkipped == [][C18_Step]_vars

\* A step in which a save handler has written the file.
Written == lastWrite'.outcome = "written" /\ (lastWrite' # lastWrite \/ artifact' # artifact)

\* C15 as stated: a write of a save handler is a shallow merge into the
\* existing file: the keys it writes have the written values, every other
\* key of the existing file keeps its value, and no other key appears.
C15_Step ==
    Written
    => /\ artifact'.kind = "object"
       /\ \A k \in DOMAIN lastWrite'.data : artifact'.value[k] = lastWrite'.data[k]
       /\ artifact.kind = "object"
            => /\ DOMAIN artifact'.value
                    = (DOMAIN artifact.value) \cup (DOMAIN lastWrite'.data)
               /\ \A k \in (DOMAIN artifact.value) \ (DOMAIN lastWrite'.data) :
                     artifact'.value[k] = artifact.value[k]

C15_ShallowMerge == [][C15_Step]_vars

\* C16: when a save handler that has just written the file runs again with
\* the same output, the file content stays what the first write left,
\* whatever the file was before the first write.
C16_Step ==
    (lastWrite.op # "none" /\ lastWrite' = lastWrite) => artifact' = artifact

C16_WriteTwice == [][C16_Step]_vars

C16_Witness ==
    /\ lastWrite.op = "save_main_info"
    /\ lastWrite.outcome = "written"
    /\ artifact.kind = "object"
    /\ "ocr_text" \in DOMAIN artifact.value
    /\ artifact.value["supplier"] = "ACME"

\* A step of _check_abnormal_material on a normalized table.
C20_Step ==
    (stage = "table_norming" /\ node = "check_abnormal_material"
       /\ Truthy(norming.normalized_table))
    => LET examples == norming.normalized_table.items.examples
           flagged(i) == {examples[i].molecules[k].element :
                            k \in 1..Len(examples[i].molecules)} \ usual_components
       IN /\ norming'.normalized_table = norming.normalized_table
          /\ norming'.abnormal_material
                = (\E i \in 1..Len(examples) : flagged(i) # {})
          /\ \A i \in 1..Len(examples) :
                flagged(i) # {}
                => /\ examples[i].id \in DOMAIN norming'.abnormal_details
                   /\ Range(norming'.abnormal_details[examples[i].id]) = flagged(i)

\* C20 as stated: the element validation records, per example, every
\* molecule element that is not in the reference list, sets the abnormal
\* flag if and only if there is one, and leaves the normalized table as it
\* was.
C20_UnusualFlagged == [][C20_Step]_vars

\* A step in which the sub-graph extract_table_data reaches its END.
LoopEnds == stage = "extract_table_data" /\ stage' = Edge("extract_table_data")

\* The step is a table selection (no feedback pending) that finds no table
\* whose extracted_data is missing or None.
SelectionFindsNone ==
    /\ node = "extract_table_data"
    /\ feedback = None
    /\ \A i \in 1..Len(tables) :
          "extracted_data" \in DOMAIN tables[i] /\ tables[i].extracted_data # NoneData
    /\ tables' = tables /\ feedback' = feedback

\* C21 as stated: the loop reaches its end only from a table selection that
\* finds no table with unset extracted_data.
C21_OnlyFromSelection == [][LoopEnds => SelectionFindsNone]_vars

\* The step is the init node with SKIP_STEP_2 = "True": the state is
\* replaced by the one loaded from data/step2.pkl.
SkipLoad ==
    /\ node = "init"
    /\ SKIP_STEP_2 = "True"
    /\ step2_pkl.exists
    /\ tables' = step2_pkl.state.tables
    /\ feedback' = step2_pkl.state.feedback

C21_Step ==
    LoopEnds
    => /\ SelectionFindsNone \/ SkipLoad
       /\ feedback' = None
       /\ inProgress' = {}
       /\ \A i \in 1..Len(tables') :
             "extracted_data" \in DOMAIN tables'[i] /\ tables'[i].extracted_data # NoneData

\* C21 as amended: the loop reaches its end either from a table selection
\* that finds no table with unset extracted_data, or from its init node when
\* SKIP_STEP_2 is "True" (then with the checkpointed state); in both cases
\* no feedback is pending and no table's extracted_data is unset at the end.
C21_EndOnlyWhenAllExtracted == [][C21_Step]_vars

C21_Witness ==
    /\ stage = Edge("extract_table_data")
    /\ loopEnd = "all_extracted"
    /\ Len(tables) >= 2
    /\ \A i \in 1..Len(tables) : "extracted_data" \in DOMAIN tables[i]

\* Table i (1-based position) has no extracted_data yet.
Unset(tbls, i) ==
    "extracted_data" \notin DOMAIN tbls[i] \/ tbls[i].extracted_data = NoneData

\* An extraction call made with no feedback pending is for the lowest-index
\* table whose extracted_data is unset: it is that table's first extraction,
\* every table before it has extracted_data set, none after it has.
C22_Step ==
    (ExtractionCall /\ feedback = None)
    => LET i == lastCall'.idx + 1
       IN /\ i \in 1..Len(tables)
          /\ Unset(tables, i)
          /\ \A j \in 1..(i - 1) : ~Unset(tables, j)
          /\ \A j \in (i + 1)..Len(tables) : Unset(tables, j)

\* C22: with no pending feedback the table chosen is the lowest-index table
\* whose extracted_data is unset, so tables are first extracted in strictly
\* increasing index order, table i only after every table j < i has
\* extracted_data set.
C22_LowestIndexFirst == [][C22_Step]_vars

C22_Witness ==
    /\ InVerify
    /\ lastCall.op = "extract"
    /\ lastCall.pending = None
    /\ lastCall.idx = 1
    /\ Len(tables) = 3
    /\ ~Unset(tables, 1) /\ ~Unset(tables, 2) /\ Unset(tables, 3)

\* An extraction call for a table that has no extracted_data yet finds the
\* shared slots in their initial condition; and whenever the loop is about
\* to select a table, no feedback pending means the counter is 1.
C23_Step ==
    /\ (ExtractionCall /\ Unset(tables, lastCall'.idx + 1))
         => /\ retry_counter = init_val_for_retry_counter
            /\ feedback = None
            /\ attempts = 0 /\ verifications = 0
            /\ attempts' = 1
    /\ (InExtract /\ feedback = None)
         => retry_counter = init_val_for_retry_counter

\* C23: whenever a new table becomes active retry_counter is 1 and feedback
\* is unset, whatever the retries of the tables before it, so the new table
\* starts its own count of attempts.
C23_FreshRetryState == [][C23_Step]_vars

C23_Witness ==
    /\ InVerify
    /\ curr_table_idx = 1
    /\ attempts = max_n_retries
    /\ retry_counter = max_n_retries
    /\ ~Unset(tables, 1)

\* C24: in every state of the extraction loop retry_counter is 1, 2 or 3,
\* and feedback is set (not None) exactly when retry_counter is at least 2.
C24_CounterAndFeedback ==
    stage = "extract_table_data"
    => /\ retry_counter \in {1, 2, 3}
       /\ (feedback # None) <=> (retry_counter >= 2)

C24_Witness ==
    /\ InExtract
    /\ retry_counter = 3
    /\ feedback = ""
    /\ curr_table_idx = 1

\* The calls counted for the table in progress are all the calls the table
\* ever gets (a count starts only for a table never extracted, and an
\* extracted table is never unset), they stay within 3 extractions and 2
\* verifications, and the verify node entered with retry_counter = 3 makes no
\* call and keeps the third result.
C25_Step ==
    /\ attempts' <= 3 /\ verifications' <= 2
    /\ (ExtractionCall /\ attempts = 0) => Unset(tables, lastCall'.idx + 1)
    /\ \A i \in 1..Len(tables) :
          (stage = "extract_table_data" /\ node # "init" /\ ~Unset(tables, i))
          => (Len(tables') = Len(tables) /\ ~Unset(tables', i))
    /\ (InVerify /\ retry_counter = 3 /\ vars' # vars)
         => /\ lastCall'.op = "verify_skipped"
            /\ tables' = tables
            /\ ~Unset(tables, curr_table_idx + 1)
            /\ attempts = 3 /\ verifications = 2
            /\ node' = "extract_table_data" /\ stage' = stage
    /\ (InVerify /\ lastCall'.op = "verify_skipped") => retry_counter = 3

\* C25: no table receives more than 3 extraction calls or more than 2
\* verification LLM calls; when the verify node is entered with
\* retry_counter = 3 no verification call is made and the result of the
\* third extraction is kept unverified.
C25_CallsPerTable == [][C25_Step]_vars

C25_Witness ==
    /\ InExtract
    /\ lastCall.op = "verify_skipped"
    /\ lastCall.idx = 0
    /\ Len(tables) >= 2
    /\ ~Unset(tables, 1) /\ Unset(tables, 2)
    /\ retry_counter = 1 /\ feedback = None

\* An extraction step that returns sets the active table's extracted_data to
\* the answer of this call (one of the values chain.invoke or the
\* content-filter branch yields) and copies everything else; an extraction
\* step that raises, and every step of the verify node, keeps tables.
C26_Step ==
    /\ (ExtractionCall /\ stage' = stage)
         => LET i == lastCall'.idx + 1
            IN /\ Len(tables') = Len(tables)
               /\ i \in 1..Len(tables)
               /\ \A j \in 1..Len(tables) : j # i => tables'[j] = tables[j]
               /\ DOMAIN tables'[i] = DOMAIN tables[i] \cup {"extracted_data"}
               /\ \A f \in DOMAIN tables[i] :
                     f # "extracted_data" => tables'[i][f] = tables[i][f]
               /\ tables'[i].extracted_data \in LLMResults \cup {EmptyResult}
               /\ lastCall'.outcome = "content_filter"
                     => tables'[i].extracted_data = EmptyResult
    /\ (ExtractionCall /\ stage' # stage) => tables' = tables
    /\ InVerify => tables' = tables

\* C26: an extraction attempt replaces only the active table's
\* extracted_data, wholesale, and leaves every other table's content,
\* page references, extracted_data and the order of tables unchanged;
\* verification changes no table.
C26_OnlyActiveTableChanges == [][C26_Step]_vars

C26_Witness ==
    /\ InVerify
    /\ lastCall.op = "extract" /\ lastCall.idx = 1
    /\ lastCall.pending # None
    /\ lastCall.outcome = "content_filter"
    /\ attempts = 2
    /\ Len(tables) = 3
    /\ tables[1].extracted_data \in LLMResults
    /\ tables[2].extracted_data = EmptyResult
    /\ Unset(tables, 3)

\* A step that writes data/step2.pkl is the selection that finds no
\* unextracted table with no feedback pending.
CheckpointAtEndOnly ==
    step2_pkl' # step2_pkl
    => /\ InExtract /\ feedback = None /\ AllExtracted
       /\ stage' = Edge("extract_table_data")
       /\ step2_pkl'.exists /\ step2_pkl'.state.tables = tables

\* The init node with SKIP_STEP_2 = "True" ends the stage with the state of
\* the checkpoint, and no LLM call is made.
SkipEndsWithCheckpoint ==
    (stage = "extract_table_data" /\ node = "init" /\ SKIP_STEP_2 = "True"
     /\ vars' # vars)
    => /\ UNCHANGED <<lastCall, attempts, verifications>>
       /\ step2_pkl.exists
       /\ stage' = Edge("extract_table_data")
       /\ tables' = step2_pkl.state.tables
       /\ pages' = step2_pkl.state.pages
       /\ feedback' = step2_pkl.state.feedback

C27_Step == CheckpointAtEndOnly /\ SkipEndsWithCheckpoint

\* C27: the checkpoint of the extraction stage is written only by the table
\* selection that finds every table processed, never while a table is
\* unextracted or in progress; and with the skip flag set the stage ends at
\* once with the checkpointed state, without an extraction or verification
\* call.
C27_CheckpointAndSkip == [][C27_Step]_vars

\* The contents of the fragments lo..hi (0-based), in detection order.
FragmentContents(lo, hi) ==
    [j \in 1..(hi - lo + 1) |-> fragments[lo + j].content]

\* The concatenation of the groups handed to add_merged_table, in call order.
RECURSIVE Flatten(_)
Flatten(gs) == IF gs = <<>> THEN <<>> ELSE gs[1] \o Flatten(Tail(gs))

\* C28: the merge pass partitions the detected tables into contiguous runs:
\* every fragment is part of exactly one merged table, the merged tables are
\* in the order of their first fragments, the content of each is the
\* contents of its fragments joined by newline in detection order, and each
\* group is finalized exactly once, the last one included.
C28_ContiguousRuns ==
    AfterMerge =>
      /\ \A k \in 0..(Len(fragments) - 1) :
           Cardinality({i \in 1..Len(tables) : k \in Contributors(tables[i])}) = 1
      /\ \A i \in 1..Len(tables) :
           LET C == Contributors(tables[i])
           IN /\ C # {}
              /\ \E lo, hi \in 0..(Len(fragments) - 1) :
                    /\ C = lo..hi
                    /\ tables[i].content = Join(FragmentContents(lo, hi))
      /\ \A i, j \in 1..Len(tables) :
           i < j => \A a \in Contributors(tables[i]), b \in Contributors(tables[j]) : a < b
      /\ Len(mergedFrom) = Len(tables)
      /\ Flatten(mergedFrom) = [k \in 1..Len(fragments) |-> k - 1]

C28_Witness ==
    /\ AfterMerge
    /\ Len(fragments) = 3
    /\ mergedFrom = <<(<<0>>), <<1, 2>>>>
    /\ Len(tables) = 2
    /\ tables[2].content = Join(FragmentContents(1, 2))
    /\ fragments[1].pages = fragments[2].pages

\* The calls of check_if_table_spills made for the pair of fragments
\* (k - 1, k), 0-based.
CallsFor(k) ==
    {c \in 1..Len(spillCalls) :
        spillCalls[c].prev = k - 1 /\ spillCalls[c].cand = k}

\* C29: the candidate is compared with the last fragment appended to the
\* group, so the classifier is consulted exactly for the consecutive pairs
\* of detected tables on adjacent pages, once each, with the images of the
\* two pages; a CONTINUOUS answer keeps the pair in one merged table, so
\* fragments on pages p, p+1, p+2 with both boundaries CONTINUOUS are one
\* merged table with page_refs p, p+1, p+2; a DISTINCT answer finalizes the
\* group and the candidate starts the next one.
C29_LastFragmentAdjacency ==
    AfterMerge =>
      /\ \A c \in 1..Len(spillCalls) :
           /\ spillCalls[c].cand = spillCalls[c].prev + 1
           /\ spillCalls[c].cand \in 1..(Len(fragments) - 1)
      /\ \A k \in 1..(Len(fragments) - 1) :
           LET p == fragments[k].pages[1]
           IN IF fragments[k + 1].pages[1] = p + 1
              THEN /\ Cardinality(CallsFor(k)) = 1
                   /\ \A c \in CallsFor(k) :
                        /\ spillCalls[c].page1 = PageImage(p + 1)
                        /\ spillCalls[c].page2 = PageImage(p + 2)
                        /\ IF spillCalls[c].answer
                           THEN \E g \in 1..Len(mergedFrom) :
                                  \E o \in 1..(Len(mergedFrom[g]) - 1) :
                                     /\ mergedFrom[g][o] = k - 1
                                     /\ mergedFrom[g][o + 1] = k
                                     /\ tables[g].pages[o] = p
                                     /\ tables[g].pages[o + 1] = p + 1
                           ELSE \E g \in 1..(Len(mergedFrom) - 1) :
                                     /\ mergedFrom[g][Len(mergedFrom[g])] = k - 1
                                     /\ mergedFrom[g + 1][1] = k
              ELSE CallsFor(k) = {}
      /\ \A k \in 1..(Len(fragments) - 2) :
           LET p == fragments[k].pages[1]
           IN (/\ fragments[k + 1].pages[1] = p + 1
               /\ fragments[k + 2].pages[1] = p + 2
               /\ \A c \in CallsFor(k) \cup CallsFor(k + 1) : spillCalls[c].answer)
              => \E g \in 1..Len(tables) :
                    /\ {k - 1, k, k + 1} \subseteq Contributors(tables[g])
                    /\ \E o \in 1..(Len(tables[g].pages) - 2) :
                          SubSeq(tables[g].pages, o, o + 2) = <<p, p + 1, p + 2>>
                    /\ Cardinality(Contributors(tables[g])) = 3
                         => tables[g].pages = <<p, p + 1, p + 2>>

C29_Witness ==
    /\ AfterMerge
    /\ Len(fragments) = 3
    /\ \A k \in 1..3 : fragments[k].pages = <<k - 1>>
    /\ Len(spillCalls) = 2
    /\ spillCalls[1].answer /\ spillCalls[2].answer
    /\ spillCalls[2].prev = 1
    /\ Len(tables) = 1
    /\ tables[1].pages = <<0, 1, 2>>

\* Before the merge, the table_refs of each page list exactly the fragments
\* whose page it is.
RefsListFragments ==
    \A q \in 1..Len(fragPages) :
       /\ Range(fragPages[q].tables) =
            {k \in 0..(Len(fragments) - 1) : fragments[k + 1].pages[1] = q - 1}
       /\ Cardinality(Range(fragPages[q].tables)) = Len(fragPages[q].tables)

\* C30: if before the merge each page's table_refs lists exactly the
\* fragments on that page, then the merge never fails to find the reference
\* it removes, and after it a merged table is in a page's table_refs exactly
\* when the page is in the table's page_refs, every reference is the id of a
\* merged table, and neither list has a duplicate entry.  (Table page_refs
\* hold 0-based page indices, the page's number field is 1-based.)
C30_RefsConsistent ==
    RefsListFragments =>
      /\ ~(stage = "raised" /\ node = "concatenate_tables")
      /\ AfterMerge =>
           /\ \A q \in 1..Len(pages) :
                /\ \A i \in 1..Len(tables) :
                     (tables[i].number \in Range(pages[q].tables))
                     <=> (pages[q].number - 1 \in Range(tables[i].pages))
                /\ Range(pages[q].tables)
                     \subseteq {tables[i].number : i \in 1..Len(tables)}
                /\ Cardinality(Range(pages[q].tables)) = Len(pages[q].tables)
           /\ \A i \in 1..Len(tables) :
                Cardinality(Range(tables[i].pages)) = Len(tables[i].pages)

C30_Witness ==
    /\ AfterMerge
    /\ RefsListFragments
    /\ Len(pages) >= 2
    /\ fragPages[2].tables = <<1, 2>>
    /\ pages[2].tables = <<0, 1>>
    /\ Len(tables) = 2
    /\ tables[1].pages = <<0, 1>>
    /\ tables[2].pages = <<1>>

\* C31: after the relevance filter, every table id in the table_refs of a
\* remaining page is the id of a table that survived the filter.
C31_NoDanglingRefs ==
    AfterFilter =>
      \A q \in 1..Len(pages) :
         Range(pages[q].tables) \subseteq {tables[i].number : i \in 1..Len(tables)}

\* The text of the cell at (r, c), 0-based: the content of the last cell the
\* service lists for the position, empty when there is none or it has no
\* content.
CellText(t, r, c) ==
    LET at == {i \in 1..Len(t.cells) :
                  t.cells[i].rowIndex = r /\ t.cells[i].columnIndex = c}
    IN IF at = {} THEN <<>>
       ELSE LET last == CHOOSE i \in at : \A j \in at : j <= i
            IN IF t.cells[last].content = NoneData THEN <<>>
               ELSE t.cells[last].content.s

\* The serialization of row r: columnCount fields joined by "||".
SerializedRow(t, r) == JoinCols([c \in 1..t.columnCount |-> CellText(t, r, c - 1)])

\* The serialized rows 1..rowCount-1 from row r on, each ended by a newline.
RECURSIVE DataLines(_, _)
DataLines(t, r) ==
    IF r >= t.rowCount THEN <<>>
    ELSE SerializedRow(t, r) \o <<"\n">> \o DataLines(t, r + 1)

\* How often the piece x occurs in the string s.
Occurrences(s, x) == Cardinality({i \in 1..Len(s) : s[i] = x})

SerializedRows(t) == 1 + (IF t.rowCount > 1 THEN t.rowCount - 1 ELSE 0)

C33_Step ==
    (stage = "table_norming" /\ node = "init" /\ artifact = Absent /\ vars' # vars)
    => /\ stage' # "raised"
       /\ norming'.error \notin {None, ""}
       /\ norming'.normalized_table = NoneData
       /\ artifact' = artifact

\* C33: if the persisted table data of the document cannot be loaded, the
\* normalization stage records the error, makes no LLM normalization call,
\* writes no normalized artifact, and ends without raising.
C33_LoadErrorRecorded == [][C33_Step]_vars

\* The table_norming sub-graph has ended (its last node has run).
NormingEnded == stage = Edge("table_norming")

\* No step of the normalization stage raises; a file is written only by a
\* step taken with a normalized table in the state; and when the stage has
\* ended without a normalized table, an error is recorded.
C34_Step ==
    /\ stage = "table_norming" => stage' # "raised"
    /\ (artifact' # artifact \/ lastWrite' # lastWrite)
         => Truthy(norming.normalized_table)
    /\ (NormingEnded' /\ norming'.normalized_table = NoneData)
         => norming'.error \notin {None, ""}

\* C34: a failure of the LLM call of the normalization stage is caught: the
\* stage records an error and ends without raising, and the normalized
\* artifact is written only in runs that produced a normalized table.
C34_NormalizationFailureCaught == [][C34_Step]_vars

C34_Witness ==
    /\ NormingEnded
    /\ Truthy(norming.table_data)
    /\ norming.normalized_table = NoneData
    /\ norming.error = "No normalized table data to check"
    /\ artifact = Absent

\* The main-data workflow is over: it reached END or an exception left it.
MainEnded == main_data.step \in {"__end__", "raised"}

\* The retry handler runs only after a first verification that did not
\* accept, before any retry; a verification made after the retry that does
\* not answer VERIFIED or CERTAIN ends the workflow.
C35_Step ==
    /\ main_data'.state.extractions <= 2
    /\ main_data'.state.verifications <= 2
    /\ main_data.step = "retry_get_main_info"
         => /\ ~main_data.state.retried
            /\ main_data.state.extractions = 1
            /\ main_data.state.verifications = 1
    /\ (/\ main_data.step = "verify_main_info"
        /\ main_data.state.retried
        /\ main_data'.state.verifications = main_data.state.verifications + 1
        /\ main_data'.state.last_result \notin {"VERIFIED", "CERTAIN"})
         => MainEnded'

\* C35: the main-data workflow re-extracts at most once per document: after
\* one retry a second verification result other than VERIFIED or CERTAIN ends
\* the workflow; there are at most 2 extraction calls and at most 2
\* verification calls, and the workflow always terminates.
C35_AtMostOneRetry == [][C35_Step]_vars /\ <>MainEnded

C35_Witness ==
    /\ main_data.step = "__end__"
    /\ main_data.state.retried
    /\ main_data.state.extractions = 2
    /\ main_data.state.verifications = 2
    /\ main_data.state.last_result = "UNSURE"

\* A step writes the artifact only from the save node, reached with the last
\* verification result VERIFIED or CERTAIN, and what it writes holds the
\* main info of the state; a step to END from the verify node writes nothing
\* and leaves the result and the reason of that verification in the state.
C36_Step ==
    /\ (artifact' # artifact \/ lastWrite' # lastWrite)
         => /\ main_data.step = "save_main_info"
            /\ main_data.state.last_result \in {"VERIFIED", "CERTAIN"}
            /\ main_data.state.confidence = main_data.state.last_result
    /\ (main_data.step = "save_main_info" /\ main_data'.step = "__end__")
         => /\ artifact'.kind = "object"
            /\ \A k \in DOMAIN main_data.state.main_info :
                  /\ k \in DOMAIN artifact'.value
                  /\ artifact'.value[k] = main_data.state.main_info[k]
            /\ artifact'.value["confidence"] = main_data.state.last_result
    /\ (main_data.step = "verify_main_info" /\ main_data'.step = "__end__")
         => /\ main_data.state.retried
            /\ main_data'.state.last_result \in {"UNSURE", "FALSE", "PROBABLY"}
            /\ main_data'.state.confidence = main_data'.state.last_result
            /\ main_data'.state.reason \in VerifyReasons
            /\ UNCHANGED <<artifact, lastWrite>>
    /\ (main_data'.step = "__end__" /\ main_data.step # "__end__")
         => ((lastWrite'.op = "save_main_info")
               <=> (main_data'.state.last_result \in {"VERIFIED", "CERTAIN"}))

\* C36: the main info is written to the artifact if and only if the most
\* recent verification result is VERIFIED or CERTAIN; when the verification
\* after the retry is still UNSURE or FALSE the workflow ends with
\* confidence and reason in its state and without writing the main info.
C36_WrittenIffAccepted == [][C36_Step]_vars

C36_Witness ==
    /\ main_data.step = "__end__"
    /\ main_data.state.retried
    /\ main_data.state.last_result = "FALSE"
    /\ main_data.state.confidence = "FALSE"
    /\ main_data.state.reason = "supplier looks wrong"
    /\ lastWrite = NoWrite
    /\ artifact = JsonObject([k \in {"ocr_text"} |-> "text one"])

\* C37: all stages derive the same file name from the same document path or
\* URL, so a later stage reads and merges into the file an earlier stage
\* wrote for the document.
C37_SameFileName ==
    file_names.step = "done" =>
      /\ file_names.main_init = file_names.ocr
      /\ file_names.main_save = file_names.ocr
      /\ file_names.norming = file_names.ocr

====
